---- MODULE Spec2Model ----
(***************************************************************************)
(* Ingestion engine: HTTP ingest handler -> log producer -> partition 0    *)
(* of the topic -> consumer worker -> column-store tables, and the         *)
(* token-bucket rate limiter table.                                        *)
(*                                                                         *)
(* Spec        the log / consumer / sink pipeline under publishing         *)
(*             requests.                                                   *)
(* SpecIngest  the ingest handler, request by request, with its responses. *)
(* SpecRL      the rate-limiter bucket table.                              *)
(* SpecHttp    the ingest route from the request headers on: credential    *)
(*             extraction, then the handler.                               *)
(* SpecBatch   the producer's per-topic batch accumulator.                 *)
(* SpecAuth    the auth client's response cache under concurrent           *)
(*             validations.                                                *)
(* SpecRet     the retention worker on the partitions of the column store. *)
(* SpecHealth  the health registry, the start-up check and the health      *)
(*             routes.                                                     *)
(* SpecSinks   route_and_insert on batches of every kind of event type.    *)
(* SpecSched   the loops of the periodic background workers.               *)
(* SpecEnrich  EnrichmentWorker::enrich on one event.                      *)
(* SpecPaths   the router on posts to the ingest path and its alias.       *)
(* SpecCut     calculate_cutoff_partition on dates and retentions.         *)
(***************************************************************************)
EXTENDS Integers, Sequences, FiniteSets, TLC

VARIABLES
    log,                \* partition 0 of the topic; offset o is log[o + 1]
    resp,               \* the last ingest request and its response
    redpanda_send_errors, \* metrics().redpanda_send_errors
    max_retries,        \* ConsumerWorkerConfig.max_retries
    skip_on_failure,    \* ConsumerWorkerConfig.skip_on_failure
    partition_client,   \* Consumer.partition_client: "None" or "Some"
    current_offset,     \* Consumer.current_offset
    initialized,        \* Consumer.initialized
    pc,                 \* position of ConsumerWorker::run
    paused_ms,          \* what run slept after the last error of process_batch, ms
    batch,              \* what the last fetch_batch returned and how it was settled
    attempt,            \* loop variable of insert_with_retry
    backoffs,           \* back-off sleeps of the current insert_with_retry, ms
    sink,               \* rows inserted into the column store, in insertion order
    abandoned,          \* offsets of events given up under skip_on_failure
    buckets,            \* RateLimiter.buckets: a function key -> TokenBucket
    allowed,            \* what the last RateLimiter::check returned
    now,                \* the monotonic clock (Instant::now), seconds
    swept,              \* the last call on the rate limiter was the periodic sweep
    http,               \* the last request to the ingest route and its response
    batches,            \* BatchAccumulator.batches: a function topic -> EventBatch
    returned,           \* the last call on the accumulator and what it returned
    instant,            \* the accumulator's clock (Instant::now), ms
    cache,              \* AuthClient.cache: a function key -> cached answer
    calls,              \* the position of each caller inside AuthClient::validate
    answered,           \* the last answer of the auth service about TrackedKey
    validated,          \* the last validation of TrackedKey that returned
    auth_now,           \* the cache's clock, seconds
    partitions,         \* system.parts: a function table -> active partition ids
    pass,               \* the last run of the retention worker and its outcomes
    today,              \* Utc::now() as the retention worker reads it: year, month
    reachable,          \* which of the broker and the column store answer right now
    registry,           \* HEALTH: the health of the two components
    main_pc,            \* position of main: "check_health" or "serving"
    probe,              \* the last request to a health route and its response
    routed,             \* the last call of route_and_insert and what it did
    sched,              \* the periodic background workers: position and last run
    enriched,           \* an event before and after EnrichmentWorker::enrich
    posted,             \* the last POST to an ingest path and its response
    cut,                \* a call of calculate_cutoff_partition: its arguments and result
    checking,           \* a Consumer::health_check call in flight
    admits,             \* admissions of the returning key, per instant
    fate                \* the last call of the producer: batches published and batches lost

ingest_vars == <<resp, redpanda_send_errors>>
consumer_vars == <<max_retries, skip_on_failure, partition_client, current_offset,
                   initialized, pc, paused_ms, batch, attempt,
                   backoffs, sink, abandoned>>
pipe_vars == <<log, ingest_vars, consumer_vars>>
rl_vars == <<buckets, allowed, now, swept>>
http_vars == <<http>>
acc_vars == <<batches, returned, instant>>
auth_vars == <<cache, calls, answered, validated, auth_now>>
ret_vars == <<partitions, pass, today>>
health_vars == <<reachable, registry, main_pc, probe>>
route_vars == <<routed>>
sched_vars == <<sched>>
enrich_vars == <<enriched>>
path_vars == <<posted>>
cut_vars == <<cut>>
checking_vars == <<checking>>
budget_vars == <<admits>>
producer_vars == <<fate>>
vars ==
    <<pipe_vars, rl_vars, http_vars, acc_vars, auth_vars,
      ret_vars, health_vars, route_vars, sched_vars, enrich_vars, path_vars, cut_vars, checking_vars, budget_vars, producer_vars>>

\* What the actions of one component leave alone.
outside_pipe ==
    <<rl_vars, http_vars, acc_vars, auth_vars, ret_vars,
      health_vars, route_vars, sched_vars, enrich_vars, path_vars, cut_vars, checking_vars, budget_vars, producer_vars>>
outside_rl ==
    <<pipe_vars, http_vars, acc_vars, auth_vars, ret_vars,
      health_vars, route_vars, sched_vars, enrich_vars, path_vars, cut_vars, checking_vars, budget_vars, producer_vars>>
outside_route ==
    <<rl_vars, acc_vars, auth_vars, ret_vars, health_vars,
      route_vars, sched_vars, enrich_vars, path_vars, cut_vars, checking_vars, budget_vars, producer_vars>>
outside_acc ==
    <<pipe_vars, rl_vars, http_vars, auth_vars, ret_vars,
      health_vars, route_vars, sched_vars, enrich_vars, path_vars, cut_vars, checking_vars, budget_vars, producer_vars>>
outside_auth ==
    <<pipe_vars, rl_vars, http_vars, acc_vars, ret_vars,
      health_vars, route_vars, sched_vars, enrich_vars, path_vars, cut_vars, checking_vars, budget_vars, producer_vars>>
outside_ret ==
    <<pipe_vars, rl_vars, http_vars, acc_vars, auth_vars,
      health_vars, route_vars, sched_vars, enrich_vars, path_vars, cut_vars, checking_vars, budget_vars, producer_vars>>
outside_health ==
    <<pipe_vars, rl_vars, http_vars, acc_vars, auth_vars,
      ret_vars, route_vars, sched_vars, enrich_vars, path_vars, cut_vars, checking_vars, budget_vars, producer_vars>>
outside_sinks ==
    <<pipe_vars, rl_vars, http_vars, acc_vars, auth_vars,
      ret_vars, health_vars, sched_vars, enrich_vars, path_vars, cut_vars, checking_vars, budget_vars, producer_vars>>
outside_sched ==
    <<pipe_vars, rl_vars, http_vars, acc_vars, auth_vars,
      ret_vars, health_vars, route_vars, enrich_vars, path_vars, cut_vars, checking_vars, budget_vars, producer_vars>>
outside_enrich ==
    <<pipe_vars, rl_vars, http_vars, acc_vars, auth_vars,
      ret_vars, health_vars, route_vars, sched_vars, path_vars, cut_vars, checking_vars, budget_vars, producer_vars>>
outside_paths ==
    <<rl_vars, acc_vars, auth_vars, ret_vars, health_vars,
      route_vars, sched_vars, enrich_vars, cut_vars, checking_vars, budget_vars, producer_vars>>
outside_cut ==
    <<pipe_vars, rl_vars, http_vars, acc_vars, auth_vars,
      ret_vars, health_vars, route_vars, sched_vars, enrich_vars, path_vars, checking_vars, budget_vars, producer_vars>>
outside_checking ==
    <<rl_vars, http_vars, acc_vars, auth_vars, ret_vars,
      health_vars, route_vars, sched_vars, enrich_vars, path_vars, cut_vars, budget_vars, producer_vars>>
outside_budget ==
    <<pipe_vars, http_vars, acc_vars, auth_vars, ret_vars,
      health_vars, route_vars, sched_vars, enrich_vars, path_vars, cut_vars, checking_vars, producer_vars>>
outside_producer ==
    <<pipe_vars, rl_vars, http_vars, auth_vars,
      ret_vars, health_vars, route_vars, sched_vars, enrich_vars, path_vars, cut_vars, checking_vars, budget_vars>>

----------------------------------------------------------------------------
(* Bounds *)

MaxLog == 2             \* records the partition may hold
MaxReqLen == 2          \* records per ingest request
MaxSinkRows == 2        \* rows the sink may hold when an insert call fails half-way
MaxTicks == 2           \* clock ticks the rate limiter runs for
Rate == 1               \* RateLimitConfig.rate, tokens per second
Burst == 1              \* RateLimitConfig.burst
MaxSendErrors == 1      \* ceiling of the send-error counter
BatchConfig_max_size == 2 \* BatchConfig.max_size, records
MaxFlushTicks == 4      \* flush-tick intervals the accumulator runs for
MaxAuthTicks == 3       \* clock ticks the auth cache runs for
MaxRouteLen == 3        \* events of a batch handed to route_and_insert
MaxRetention == 25      \* months of retention the cutoff is computed for
MaxAdmits == 2          \* admissions of the returning key that are counted
AuthTickSecs == 10      \* seconds per clock tick of the auth cache

(* Program constants *)

\* The record ceiling of one request, scaled from 1000 to the longest request
\* the transformation is explored on.
MAX_BATCH_EVENTS == 2
DEFAULT_MAX_RETRIES == 3
DEFAULT_RETRY_BACKOFF_MS == 100
ERROR_PAUSE_MS == 1000
\* The bucket ceiling, scaled from 10_000 to the smallest table for which
\* MAX_BUCKETS / 10 is still at least one bucket.
MAX_BUCKETS == 10
DEFAULT_MAX_AGE == 3600
TickSecs == 1800
BatchConfig_max_age == 100  \* BatchConfig.max_age, ms
FLUSH_TICK_MS == 50         \* the interval of the flush task, ms
AUTH_CACHE_TTL == 30        \* seconds
\* The ceiling of the auth cache, scaled from 10_000 to one entry.
AUTH_CACHE_MAX_CAPACITY == 1
DEFAULT_RETENTION_MONTHS == 3
METRICS_RETENTION_MONTHS == 1

Sessions == {"s1", "s2"}
EventTypes == {"pageview", "click"}
Validity == {"ok", "invalid", "untransformable"}
ProjectId == "p1"

----------------------------------------------------------------------------
(* Helpers *)

Max(a, b) == IF a >= b THEN a ELSE b

RECURSIVE Concat(_)
Concat(ss) == IF ss = <<>> THEN <<>> ELSE Head(ss) \o Concat(Tail(ss))

Perms(S) == {p \in [1..Cardinality(S) -> S] : \A i, j \in 1..Cardinality(S) : p[i] = p[j] => i = j}

SeqsUpTo(S, n) == UNION {[1..k -> S] : k \in 0..n}

----------------------------------------------------------------------------
(* core/sdk_event.rs *)

\* An SDK event of a request: v says whether validate_sdk_event accepts it
\* and whether ClickHouseEvent::from_sdk can transform it.
SDKEvents ==
    {e \in [sid : Sessions, ty : EventTypes, v : Validity] :
        e.v # "ok" => (e.sid = "s1" /\ e.ty = "pageview")}

\* EventType: the serde names of the closed set of event types.
EventType ==
    {"pageview", "pageleave", "click", "scroll", "mouse_move", "keydown", "keypress",
     "keyup", "form_focus", "form_blur", "form_submit", "form_abandon", "error",
     "visibility_change", "resource_load", "session_start", "session_end",
     "performance", "custom", "exit_intent", "idle_start", "idle_end",
     "engagement_snapshot", "trigger_registered", "trigger_fired",
     "trigger_dismissed", "trigger_action", "trigger_error"}

\* The keys of SDKEvent that are neither Option nor flattened.
RequiredKeys == {"id", "type", "timestamp", "sessionId", "url", "userAgent"}

\* A JSON object that stands where an event is expected: the keys it has,
\* the text under "type", and what else it carries.
RawEvent(keys, type, sid, v) == [keys |-> keys, type |-> type, sid |-> sid, v |-> v]

\* The JSON of the SDK events.
GoodEvents == {RawEvent(RequiredKeys, e.ty, e.sid, e.v) : e \in SDKEvents}

\* An object without its "type" key and an object of a type outside the
\* closed set.
BadEvents ==
    {RawEvent(RequiredKeys \ {"type"}, "", "s1", "ok"),
     RawEvent(RequiredKeys, "invalid_type", "s1", "ok")}

RawEvents == GoodEvents \cup BadEvents

\* Variant: a decoder that takes any text as the event type.
SDKEvent_decodes_any_type(raw) == RequiredKeys \subseteq raw.keys

\* serde_json::from_value::<SDKEvent> succeeds on the object.
SDKEvent_decodes(raw) == RequiredKeys \subseteq raw.keys /\ raw.type \in EventType

\* The SDKEvent an object decodes to.
SDKEvent_from_value(raw) == [sid |-> raw.sid, ty |-> raw.type, v |-> raw.v]

\* serde_json::from_value::<Vec<SDKEvent>>: fails as a whole if one element
\* fails.
from_value(items) ==
    IF \A i \in 1..Len(items) : SDKEvent_decodes(items[i])
    THEN [ok |-> TRUE, events |-> [i \in 1..Len(items) |-> SDKEvent_from_value(items[i])]]
    ELSE [ok |-> FALSE, events |-> <<>>]

\* A request body: valid JSON or not; an array, an object or another value;
\* for an object which of the keys "events", "id", "type" it has and whether
\* the value under "events" is an array; items are the elements of the
\* array, or the object itself where it stands for a single event.
Body(json, kind, keys, events_is_array, items) ==
    [json |-> json, kind |-> kind, keys |-> keys, events_is_array |-> events_is_array,
     items |-> items]

NotJson == Body(FALSE, "other", {}, FALSE, <<>>)

EmptyArray == Body(TRUE, "array", {}, FALSE, <<>>)

\* The bodies the handler is explored on: every array of events that
\* decode, arrays with an element that does not decode alone, before and
\* after one that does, short batch objects, single events, and the values
\* that are none of these.
Bodies ==
    {NotJson, Body(TRUE, "other", {}, FALSE, <<>>), Body(TRUE, "object", {}, FALSE, <<>>),
     Body(TRUE, "object", {"events"}, FALSE, <<>>)}
    \cup {Body(TRUE, "array", {}, FALSE, items) : items \in SeqsUpTo(GoodEvents, MaxReqLen)}
    \cup {Body(TRUE, "array", {}, FALSE, items) :
              items \in UNION {{<<bad>>, <<RawEvent(RequiredKeys, "pageview", "s1", "ok"), bad>>,
                                <<bad, RawEvent(RequiredKeys, "pageview", "s1", "ok")>>} :
                               bad \in BadEvents}}
    \cup {Body(TRUE, "object", {"events"}, TRUE, items) : items \in SeqsUpTo(RawEvents, 1)}
    \cup {Body(TRUE, "object", raw.keys \cap {"id", "type"}, FALSE, <<raw>>) :
              raw \in RawEvents}

\* SDKPayload::parse
SDKPayload_parse(body) ==
    IF ~body.json THEN [ok |-> FALSE, events |-> <<>>]
    ELSE IF body.kind = "array" THEN from_value(body.items)
    ELSE IF body.kind = "object"
    THEN IF "events" \in body.keys
         THEN IF body.events_is_array THEN from_value(body.items)
              ELSE [ok |-> FALSE, events |-> <<>>]
         ELSE IF {"id", "type"} \subseteq body.keys THEN from_value(body.items)
         ELSE [ok |-> FALSE, events |-> <<>>]
    ELSE [ok |-> FALSE, events |-> <<>>]

\* Variant: validation that lets every event through.
validate_sdk_event_lax(e) == TRUE

validate_sdk_event(e) == e.v # "invalid"

from_sdk_ok(e) == e.v # "untransformable"

\* ClickHouseEvent::from_sdk: the storage record. The event id the SDK chose
\* is an opaque unique token: <<req, k>> for the k-th record made from
\* request req.
from_sdk(e, req, k) ==
    [event_id |-> <<req, k>>, project_id |-> ProjectId,
     session_id |-> e.sid, event_type |-> e.ty]

\* transform_batch: each event goes either to transformed or to errors; an
\* error is the 0-based index the message "event[i]: ..." carries.
RECURSIVE transform_from(_, _, _, _, _)
transform_from(events, req, i, transformed, errors) ==
    IF i > Len(events) THEN [transformed |-> transformed, errors |-> errors]
    ELSE IF ~validate_sdk_event(events[i])
         THEN transform_from(events, req, i + 1, transformed, Append(errors, i - 1))
         ELSE IF from_sdk_ok(events[i])
              THEN transform_from(events, req, i + 1,
                                  Append(transformed,
                                         from_sdk(events[i], req, Len(transformed) + 1)),
                                  errors)
              ELSE transform_from(events, req, i + 1, transformed, Append(errors, i - 1))

transform_batch(events, req) == transform_from(events, req, 1, <<>>, <<>>)

----------------------------------------------------------------------------
(* redpanda/producer.rs *)

\* serde_json::to_vec(&ClickHouseEvent): the payload bytes.
to_vec(event) == [enc |-> "ClickHouseEvent", body |-> event]

\* A payload that is not the JSON of a ClickHouseEvent.
GarbageValue == [enc |-> "other", body |-> <<>>]

\* format!("{}:{}", project_id, session_id): a text is the sequence of its
\* pieces.
format_key(project_id, session_id) == <<project_id, ":", session_id>>

\* The log message of one storage record.
Record(event) ==
    [key |-> format_key(event.project_id, event.session_id), value |-> to_vec(event)]

RECURSIVE Records(_)
Records(events) ==
    IF events = <<>> THEN <<>> ELSE <<Record(Head(events))>> \o Records(Tail(events))

\* What the broker answers to the produce call ("no_client": get_client
\* could not connect).
ProduceOutcomes == {"ok", "rejected", "no_client"}

\* Producer::send_clickhouse_events under produce outcome po: the Result, the
\* records appended to the partition and the increment of the error counter.
send_clickhouse_events(events, po) ==
    IF events = <<>>
    THEN [ok |-> TRUE, events_sent |-> 0, errors |-> <<>>, appended |-> <<>>, send_errors |-> 0]
    ELSE IF po = "no_client"
    THEN [ok |-> FALSE, events_sent |-> 0, errors |-> <<>>, appended |-> <<>>, send_errors |-> 0]
    ELSE IF po = "ok"
    THEN [ok |-> TRUE, events_sent |-> Len(events), errors |-> <<>>,
          appended |-> Records(events), send_errors |-> 0]
    ELSE [ok |-> TRUE, events_sent |-> 0, errors |-> <<"Failed to produce">>,
          appended |-> <<>>, send_errors |-> Len(events)]

----------------------------------------------------------------------------
(* api/response.rs, api/routes/ingest.rs *)

NoErrors == [some |-> FALSE, list |-> <<>>]

IngestResponse_success(received) ==
    [status |-> 200, code |-> "", success |-> TRUE, received |-> received,
     errors |-> NoErrors]

IngestResponse_partial(received, errors) ==
    [status |-> 200, code |-> "", success |-> TRUE, received |-> received,
     errors |-> IF errors = <<>> THEN NoErrors ELSE [some |-> TRUE, list |-> errors]]

ApiError(status, code, details) ==
    [status |-> status, code |-> code, received |-> 0,
     errors |-> [some |-> FALSE, list |-> details]]

ApiError_internal == ApiError(500, "DB_001", <<>>)

ApiError_bad_request == ApiError(400, "VALID_001", <<>>)

ApiError_validation(code) == ApiError(400, code, <<>>)

\* A request that passed the extractors: its body, whether the body is over
\* the byte limit, and what SDKPayload::parse makes of it.
Request(size_over, body) ==
    [size_over |-> size_over, body |-> body, parse_ok |-> SDKPayload_parse(body).ok,
     events |-> SDKPayload_parse(body).events]

\* A body within the byte limit that decodes to one record more than
\* MAX_BATCH_EVENTS.
OversizeBatch ==
    Request(FALSE, Body(TRUE, "array", {}, FALSE,
                        [i \in 1..(MAX_BATCH_EVENTS + 1) |->
                            RawEvent(RequiredKeys, "pageview", "s1", "ok")]))

Requests ==
    {Request(FALSE, body) : body \in Bodies}
    \cup {Request(TRUE, EmptyArray), Request(TRUE, NotJson)}
    \cup {OversizeBatch}

\* Variant: a batch guard that already trips at the ceiling.
exceeds_batch_limit_inclusive(total_events) == total_events >= MAX_BATCH_EVENTS

\* The batch guard: total_events > MAX_BATCH_EVENTS.
exceeds_batch_limit(total_events) == total_events > MAX_BATCH_EVENTS

\* The handler stopped before the produce call.
Rejected(response) ==
    [response |-> response, called |-> FALSE, appended |-> <<>>, send_errors |-> 0]

\* Variant: the producer is called on an empty list as well.
calls_producer_always(ch_events) == TRUE

\* The guard of the produce call: !ch_events.is_empty().
calls_producer(ch_events) == ch_events # <<>>

\* ingest_handler on request r, number req, under produce outcome po: the
\* response, whether the producer was called, the records published and the
\* counter increment.
ingest_handler(r, req, po) ==
    IF r.size_over
    THEN Rejected(ApiError_validation("VALID_002"))
    ELSE IF ~r.parse_ok
    THEN Rejected(ApiError_bad_request)
    ELSE IF exceeds_batch_limit(Len(r.events))
    THEN Rejected(ApiError_validation("VALID_002"))
    ELSE LET t == transform_batch(r.events, req)
             accepted == Len(t.transformed)
             rejected == Len(t.errors)
             called == calls_producer(t.transformed)
             sent == send_clickhouse_events(t.transformed, po)
         IN IF called /\ ~sent.ok
            THEN [response |-> ApiError_internal, called |-> TRUE, appended |-> <<>>,
                  send_errors |-> 0]
            ELSE [response |-> IF rejected > 0
                               THEN IngestResponse_partial(accepted, t.errors)
                               ELSE IngestResponse_success(accepted),
                  called |-> called,
                  appended |-> IF called THEN sent.appended ELSE <<>>,
                  send_errors |-> IF called THEN sent.send_errors ELSE 0]

----------------------------------------------------------------------------
(* redpanda/consumer.rs *)

None == [some |-> FALSE, offset |-> 0]

Some(o) == [some |-> TRUE, offset |-> o]

\* OffsetAt::Latest: the offset the next published record will get.
Latest(lg) == Len(lg)

\* The n records the broker returns for a fetch at offset current.
fetch_records(lg, current, n) ==
    [i \in 1..n |-> [offset |-> current + i - 1, record |-> lg[current + i]]]

\* serde_json::from_slice::<ClickHouseEvent>
from_slice_ok(value) == value.enc = "ClickHouseEvent"

from_slice(value) == value.body

\* The deserialisation loop of fetch_batch.
RECURSIVE deserialize(_, _, _, _, _)
deserialize(records, i, events, errors, max_offset) ==
    IF i > Len(records)
    THEN [events |-> events, errors |-> errors, max_offset |-> max_offset]
    ELSE LET m == Max(records[i].offset, max_offset)
         IN IF from_slice_ok(records[i].record.value)
            THEN deserialize(records, i + 1,
                             Append(events, from_slice(records[i].record.value)), errors, m)
            ELSE deserialize(records, i + 1, events, errors + 1, m)

\* Variant: the offset handed back is that of the last record itself.
commit_offset_at_last(events, max_offset, current) ==
    IF events # <<>> \/ max_offset > current THEN Some(max_offset) ELSE None

\* The offset fetch_batch hands back for commit.
commit_offset(events, max_offset, current) ==
    IF events # <<>> \/ max_offset > current THEN Some(max_offset + 1) ELSE None

\* Consumer::fetch_batch once the records have arrived.
fetch_batch(records, current) ==
    IF records = <<>>
    THEN [events |-> <<>>, offset |-> None, errors |-> 0, max_offset |-> current]
    ELSE LET d == deserialize(records, 1, <<>>, 0, current)
         IN [events |-> d.events, offset |-> commit_offset(d.events, d.max_offset, current),
             errors |-> d.errors, max_offset |-> d.max_offset]

\* Variant: the latest offset is read again on every reconnection.
needs_offset_init_always(init) == TRUE

\* ensure_connected reads the latest offset only when not yet initialised.
needs_offset_init(init) == ~init

\* Consumer::commit
commit(offset, current) == IF offset.some THEN offset.offset ELSE current

----------------------------------------------------------------------------
(* worker/consumer.rs *)

\* Variant: pageleave events fall through to the catch-all table.
TableOf_pageview_only(ty) ==
    CASE ty = "pageview" -> "pageviews"
      [] ty = "click" -> "clicks"
      [] ty = "scroll" -> "scroll_events"
      [] ty = "mouse_move" -> "mouse_moves"
      [] ty \in {"form_focus", "form_blur", "form_submit", "form_abandon"} -> "form_events"
      [] ty = "error" -> "errors"
      [] ty = "performance" -> "performance_metrics"
      [] ty = "visibility_change" -> "visibility_events"
      [] ty = "resource_load" -> "resource_loads"
      [] ty = "custom" -> "custom_events"
      [] ty = "geographic" -> "geographic"
      [] OTHER -> "events"

\* The sink table of an event type.
TableOf(ty) ==
    CASE ty \in {"pageview", "pageleave"} -> "pageviews"
      [] ty = "click" -> "clicks"
      [] ty = "scroll" -> "scroll_events"
      [] ty = "mouse_move" -> "mouse_moves"
      [] ty \in {"form_focus", "form_blur", "form_submit", "form_abandon"} -> "form_events"
      [] ty = "error" -> "errors"
      [] ty = "performance" -> "performance_metrics"
      [] ty = "visibility_change" -> "visibility_events"
      [] ty = "resource_load" -> "resource_loads"
      [] ty = "custom" -> "custom_events"
      [] ty = "geographic" -> "geographic"
      [] OTHER -> "events"

\* The keys of the map route_and_insert groups the events in.
GroupKeys(events) == {events[i].event_type : i \in 1..Len(events)}

IsType(ty, e) == e.event_type = ty

Reverse(s) == [i \in 1..Len(s) |-> s[Len(s) + 1 - i]]

\* Variant: a group that comes out in reverse batch order.
Group_reversed(events, ty) == Reverse(SelectSeq(events, LAMBDA e : IsType(ty, e)))

\* The events of one group, in batch order.
Group(events, ty) == SelectSeq(events, LAMBDA e : IsType(ty, e))

\* The rows one bulk insert writes.
RECURSIVE Rows(_)
Rows(events) ==
    IF events = <<>> THEN <<>>
    ELSE <<[table |-> TableOf(Head(events).event_type), event |-> Head(events)]>>
         \o Rows(Tail(events))

\* route_and_insert when the map is iterated in the given order and the
\* first k bulk inserts succeed: the rows written, the count, the Result.
route_and_insert(events, order, k) ==
    LET written == Concat([i \in 1..k |-> Rows(Group(events, order[i]))])
    IN [ok |-> k = Len(order), rows |-> written, count |-> Len(written)]

\* The event types of the batches route_and_insert is explored on: types
\* with a table of their own, types that share one, and types with none.
RoutedTypes ==
    {"pageview", "pageleave", "click", "form_blur", "custom", "geographic",
     "session_start", "heartbeat"}

\* The batches handed to route_and_insert: the event at place i is told
\* apart by its id.
RoutedBatches ==
    {[i \in DOMAIN tys |-> [event_id |-> i, event_type |-> tys[i]]] :
        tys \in UNION {[1..n -> RoutedTypes] : n \in 1..MaxRouteLen}}

\* A batch that route_and_insert has not been called on yet.
Unrouted(events) ==
    [events |-> events, called |-> FALSE, ok |-> FALSE, count |-> 0, rows |-> <<>>]

RouteInit == routed \in {Unrouted(events) : events \in RoutedBatches}

\* ConsumerWorker::route_and_insert on a batch: the map is iterated in some
\* order and the bulk inserts succeed up to some group.
RouteAndInsert ==
    /\ ~routed.called
    /\ \E order \in Perms(GroupKeys(routed.events)),
          k \in 0..Cardinality(GroupKeys(routed.events)) :
            LET res == route_and_insert(routed.events, order, k)
            IN routed' = [events |-> routed.events, called |-> TRUE, ok |-> res.ok,
                          count |-> IF res.ok THEN res.count ELSE 0, rows |-> res.rows]

\* Variant: a loop that runs once more.
retry_range_one_more(mr) == 0..(mr + 1)

\* The values the loop variable of insert_with_retry takes.
retry_range(mr) == 0..mr

\* The sleep before retry number attempt.
backoff(retry_backoff, att) == retry_backoff * att

\* Variant: process_batch that commits whatever the insert returned.
commits_offset_always(insert_ok, skip) == TRUE

\* process_batch commits after a successful insert, and after a failed one
\* only under skip_on_failure.
commits_offset(insert_ok, skip) == insert_ok \/ skip

NoBatch ==
    [from |-> -1, n |-> 0, events |-> <<>>, offset |-> None, errors |-> 0,
     max_offset |-> -1, calls |-> 0, settled |-> "none", base |-> 0]

----------------------------------------------------------------------------
(* Pipeline: initial state and actions *)

\* What the recorded response keeps of a body: its shape, and how many of
\* its items lack a required key or have a type outside the closed set.
Shape(body) ==
    [json |-> body.json, kind |-> body.kind, keys |-> body.keys,
     events_is_array |-> body.events_is_array, items |-> Len(body.items),
     incomplete |-> Cardinality({i \in 1..Len(body.items) :
                                    ~(RequiredKeys \subseteq body.items[i].keys)}),
     foreign |-> Cardinality({i \in 1..Len(body.items) :
                                 body.items[i].type \notin EventType})]

NoResp ==
    [size_over |-> FALSE, shape |-> Shape(EmptyArray), parse_ok |-> TRUE, n |-> 0, failures |-> 0,
     called |-> FALSE, po |-> "none", appended |-> 0, response |-> [status |-> 0]]

PipeInit ==
    /\ log = <<>>
    /\ resp = NoResp
    /\ redpanda_send_errors = 0
    /\ max_retries = DEFAULT_MAX_RETRIES
    /\ skip_on_failure \in BOOLEAN
    /\ partition_client = "None"
    /\ current_offset = -1
    /\ initialized = FALSE
    /\ pc = "fetch"
    /\ paused_ms = 0
    /\ batch = NoBatch
    /\ attempt = 0
    /\ backoffs = <<>>
    /\ sink = <<>>
    /\ abandoned = {}

\* The number of events of a request that fail validation or transformation.
Failures(events) == Cardinality({i \in 1..Len(events) : events[i].v # "ok"})

\* The handler reaches the produce call on request r.
reaches_produce(r) ==
    /\ ~r.size_over
    /\ r.parse_ok
    /\ ~exceeds_batch_limit(Len(r.events))
    /\ Failures(r.events) < Len(r.events)

\* The runs of the handler, per request tag: the handler evaluated once for
\* every request and, where the produce call is reached, every produce outcome.
IngestTable ==
    [req \in 0..MaxLog |->
        {[r |-> r, po |-> IF reaches_produce(r) THEN po ELSE "none",
          h |-> ingest_handler(r, req, po)] :
            r \in Requests, po \in ProduceOutcomes}]

\* The runs of the handler that publish, per request tag.
PublishTable ==
    [req \in 0..MaxLog |-> {run.h : run \in {x \in IngestTable[req] : x.h.appended # <<>>}}]

\* The request tag the SDK puts in its event ids: requests that get
\* published differ in it.
ReqTag == Len(log)

\* POST /overwatch-ingest: the handler, its response recorded.
Ingest ==
    /\ \E run \in IngestTable[ReqTag] :
         /\ Len(log) + Len(run.h.appended) <= MaxLog
         /\ redpanda_send_errors + run.h.send_errors <= MaxSendErrors
         /\ log' = log \o run.h.appended
         /\ redpanda_send_errors' = redpanda_send_errors + run.h.send_errors
         /\ resp' = [size_over |-> run.r.size_over, shape |-> Shape(run.r.body),
                     parse_ok |-> run.r.parse_ok,
                     n |-> Len(run.r.events), failures |-> Failures(run.r.events),
                     called |-> run.h.called, po |-> run.po,
                     appended |-> Len(run.h.appended),
                     response |-> run.h.response]
    /\ UNCHANGED consumer_vars

\* POST /overwatch-ingest as the consumer sees it: the runs of the same
\* handler that publish; the response is not recorded, and the runs that
\* publish nothing (they touch only the response and the counter) are left
\* to Ingest.
Publish ==
    /\ \E h \in PublishTable[ReqTag] :
            /\ Len(log) + Len(h.appended) <= MaxLog
            /\ log' = log \o h.appended
            /\ redpanda_send_errors' = redpanda_send_errors + h.send_errors
    /\ UNCHANGED <<resp, consumer_vars>>

\* Another producer publishes a record that is not a storage record.
ForeignPublish ==
    /\ Len(log) < MaxLog
    /\ log' = Append(log, [key |-> <<>>, value |-> GarbageValue])
    /\ UNCHANGED <<ingest_vars, consumer_vars>>

\* Consumer::ensure_connected when no client is cached (first step of
\* fetch_batch); a failure makes process_batch return the error.
EnsureConnected ==
    /\ pc = "fetch"
    /\ partition_client = "None"
    /\ \E outcome \in {"ok", "connect_err", "offset_err"} :
         IF outcome = "connect_err" \/ (outcome = "offset_err" /\ needs_offset_init(initialized))
         THEN /\ pc' = "error"
              /\ UNCHANGED <<partition_client, current_offset, initialized>>
         ELSE /\ outcome = "ok"
              /\ IF needs_offset_init(initialized)
                 THEN /\ current_offset' = Latest(log)
                      /\ initialized' = TRUE
                 ELSE UNCHANGED <<current_offset, initialized>>
              /\ partition_client' = "Some"
              /\ pc' = "fetch"
    /\ UNCHANGED <<log, ingest_vars, max_retries, skip_on_failure, paused_ms, batch,
                   attempt, backoffs, sink, abandoned>>

\* Consumer::fetch_batch with a cached client, and process_batch up to the
\* first insert attempt. The fetch fails, or returns what the partition holds
\* from current_offset on (max_bytes is batch_size * 64 KiB, far above MaxLog
\* records).
FetchBatch ==
    /\ pc = "fetch"
    /\ partition_client = "Some"
    /\ \/ /\ pc' = "error"
          /\ UNCHANGED <<batch, attempt, backoffs, paused_ms>>
       \/ LET n == Len(log) - current_offset IN
            /\ LET f == fetch_batch(fetch_records(log, current_offset, n), current_offset)
               IN /\ batch' = [from |-> current_offset, n |-> n, events |-> f.events,
                               offset |-> f.offset, errors |-> f.errors,
                               max_offset |-> f.max_offset, calls |-> 0,
                               settled |-> IF f.events = <<>> THEN "empty" ELSE "pending",
                               base |-> Len(sink)]
                  /\ pc' = IF f.events = <<>> THEN "fetch" ELSE "insert"
            /\ attempt' = 0
            /\ backoffs' = <<>>
            /\ paused_ms' = 0
    /\ UNCHANGED <<log, ingest_vars, max_retries, skip_on_failure, partition_client,
                   current_offset, initialized, sink, abandoned>>

EventIds(events) == {events[i].event_id : i \in 1..Len(events)}

SinkIds == {sink[i].event.event_id : i \in 1..Len(sink)}

\* One iteration of the loop of insert_with_retry (back-off sleep, then
\* route_and_insert) and, when the loop ends, the rest of process_batch.
InsertAttempt ==
    /\ pc = "insert"
    /\ \E order \in Perms(GroupKeys(batch.events)), k \in 0..Cardinality(GroupKeys(batch.events)) :
         LET res == route_and_insert(batch.events, order, k)
             last == (attempt + 1) \notin retry_range(max_retries)
         IN /\ (~res.ok /\ res.rows # <<>> => Len(sink) + Len(res.rows) <= MaxSinkRows)
            /\ sink' = sink \o res.rows
            /\ backoffs' = IF attempt > 0
                           THEN Append(backoffs, backoff(DEFAULT_RETRY_BACKOFF_MS, attempt))
                           ELSE backoffs
            /\ IF res.ok \/ last
               THEN /\ attempt' = attempt
                    /\ IF commits_offset(res.ok, skip_on_failure)
                       THEN /\ current_offset' = commit(batch.offset, current_offset)
                            /\ pc' = "fetch"
                       ELSE /\ pc' = "error"
                            /\ UNCHANGED current_offset
                    /\ batch' = [batch EXCEPT !.calls = @ + 1,
                                              !.settled = IF res.ok THEN "inserted"
                                                          ELSE IF skip_on_failure THEN "skipped"
                                                          ELSE "failed"]
                    /\ abandoned' = IF ~res.ok /\ skip_on_failure
                                    THEN abandoned \cup EventIds(batch.events)
                                    ELSE abandoned
               ELSE /\ attempt' = attempt + 1
                    /\ batch' = [batch EXCEPT !.calls = @ + 1]
                    /\ pc' = "insert"
                    /\ UNCHANGED <<current_offset, abandoned>>
    /\ UNCHANGED <<log, ingest_vars, max_retries, skip_on_failure, partition_client,
                   initialized, paused_ms>>

\* Variant: reset_connection forgets the offset along with the client.
Recover_forgetting ==
    /\ pc = "error"
    /\ paused_ms' = ERROR_PAUSE_MS
    /\ partition_client' = "None"
    /\ current_offset' = -1
    /\ initialized' = FALSE
    /\ pc' = "fetch"
    /\ UNCHANGED <<log, ingest_vars, max_retries, skip_on_failure,
                   batch, attempt, backoffs, sink, abandoned>>

\* ConsumerWorker::run after process_batch returned an error: sleep 1 s,
\* Consumer::reset_connection, and the loop starts over.
Recover ==
    /\ pc = "error"
    /\ paused_ms' = ERROR_PAUSE_MS
    /\ partition_client' = "None"
    /\ pc' = "fetch"
    /\ UNCHANGED <<log, ingest_vars, max_retries, skip_on_failure, current_offset,
                   initialized, batch, attempt, backoffs, sink, abandoned>>

\* Consumer::health_check is public and takes &self: a task that holds the
\* consumer runs it while the loop of ConsumerWorker::run runs. It calls
\* ensure_connected, and each await of ensure_connected is a point where the
\* loop may run in between.
NoHealthCheck == [pc |-> "idle", offset |-> -1, healthy |-> FALSE]

CheckingInit == checking = NoHealthCheck

\* health_check enters ensure_connected, which reads the cached client and
\* returns it if there is one.
HealthCheckStart ==
    /\ checking.pc \in {"idle", "done"}
    /\ checking' = IF partition_client = "Some"
                   THEN [pc |-> "done", offset |-> -1, healthy |-> TRUE]
                   ELSE [pc |-> "connect", offset |-> -1, healthy |-> FALSE]
    /\ UNCHANGED <<log, ingest_vars, consumer_vars>>

\* builder.build() and client.partition_client() answer; on success the
\* initialized flag is loaded and, if it is not set, get_offset is sent.
HealthCheckConnect ==
    /\ checking.pc = "connect"
    /\ \E outcome \in {"ok", "connect_err"} :
         checking' = IF outcome = "connect_err"
                     THEN [checking EXCEPT !.pc = "done", !.healthy = FALSE]
                     ELSE IF needs_offset_init(initialized)
                          THEN [checking EXCEPT !.pc = "get_offset"]
                          ELSE [checking EXCEPT !.pc = "cache"]
    /\ UNCHANGED <<log, ingest_vars, consumer_vars>>

\* The broker answers get_offset(OffsetAt::Latest), or the request fails.
HealthCheckGetOffset ==
    /\ checking.pc = "get_offset"
    /\ \E outcome \in {"ok", "offset_err"} :
         checking' = IF outcome = "offset_err"
                     THEN [checking EXCEPT !.pc = "done", !.healthy = FALSE]
                     ELSE [checking EXCEPT !.pc = "store", !.offset = Latest(log)]
    /\ UNCHANGED <<log, ingest_vars, consumer_vars>>

\* The answer of get_offset arrives: current_offset.store(offset) and
\* initialized.store(true), then the client is cached and health_check
\* returns true.
HealthCheckStore ==
    /\ checking.pc = "store"
    /\ current_offset' = checking.offset
    /\ initialized' = TRUE
    /\ partition_client' = "Some"
    /\ checking' = [checking EXCEPT !.pc = "done", !.healthy = TRUE]
    /\ UNCHANGED <<log, ingest_vars, max_retries, skip_on_failure, pc, paused_ms, batch,
                   attempt, backoffs, sink, abandoned>>

\* The initialized flag was set when it was loaded: the client is cached and
\* health_check returns true.
HealthCheckCache ==
    /\ checking.pc = "cache"
    /\ partition_client' = "Some"
    /\ checking' = [checking EXCEPT !.pc = "done", !.healthy = TRUE]
    /\ UNCHANGED <<log, ingest_vars, max_retries, skip_on_failure, current_offset,
                   initialized, pc, paused_ms, batch, attempt, backoffs, sink, abandoned>>

----------------------------------------------------------------------------
(* core/auth.rs, core/error.rs: the credential of a request *)

\* The text of a key after trim(): empty, not of the key format, or of it.
KeyTexts == {"empty", "malformed", "wellformed"}

\* The Authorization header: absent, of another scheme than "Bearer ", or
\* "Bearer <key>".
AuthorizationHeaders ==
    {[kind |-> "absent", key |-> "empty"], [kind |-> "other", key |-> "empty"]}
    \cup {[kind |-> "bearer", key |-> k] : k \in KeyTexts}

\* The X-API-Key header: absent or "<key>".
ApiKeyHeaders ==
    {[kind |-> "absent", key |-> "empty"]} \cup {[kind |-> "value", key |-> k] : k \in KeyTexts}

AuthErrorCode_http_status(code) == IF code = "AUTH_005" THEN 403 ELSE 401

Error_auth(code) == [ok |-> FALSE, code |-> code, status |-> AuthErrorCode_http_status(code)]

KeyOk == [ok |-> TRUE, code |-> "", status |-> 0]

\* API_KEY_REGEX.is_match: owk_(live|test)_[a-zA-Z0-9]{32}
is_match(key) == key = "wellformed"

\* Variant: a parse that takes any non-empty key.
ParsedApiKey_parse_any(key) == IF key = "empty" THEN Error_auth("AUTH_001") ELSE KeyOk

ParsedApiKey_parse(key) ==
    IF key = "empty" THEN Error_auth("AUTH_001")
    ELSE IF ~is_match(key) THEN Error_auth("AUTH_002")
    ELSE KeyOk

\* Variant: with no key in either header the format error is returned.
extract_api_key_format(auth_header, api_key_header) ==
    IF auth_header.kind = "bearer" THEN ParsedApiKey_parse(auth_header.key)
    ELSE IF api_key_header.kind = "value" THEN ParsedApiKey_parse(api_key_header.key)
    ELSE Error_auth("AUTH_002")

extract_api_key(auth_header, api_key_header) ==
    IF auth_header.kind = "bearer" THEN ParsedApiKey_parse(auth_header.key)
    ELSE IF api_key_header.kind = "value" THEN ParsedApiKey_parse(api_key_header.key)
    ELSE Error_auth("AUTH_001")

\* What the auth service says of a well-formed key.
AuthAnswers == {"valid", "AUTH_003", "AUTH_005"}

\* AuthResponse::project_id
AuthResponse_project_id(answer) == IF answer = "valid" THEN KeyOk ELSE Error_auth(answer)

----------------------------------------------------------------------------
(* api/extractors.rs (AuthContext), api/routes/ingest.rs: the ingest route *)

\* The AuthContext extractor: the key of the headers, then the answer of the
\* auth service to it.
AuthContext(auth_header, api_key_header, answer) ==
    LET key == extract_api_key(auth_header, api_key_header)
    IN IF ~key.ok THEN key ELSE AuthResponse_project_id(answer)

\* The bodies the route is explored on: those of one session and one event
\* type.
HttpBodies ==
    {r \in Requests :
        /\ r.body.kind = "array" \/ ~r.body.json
        /\ \A i \in 1..Len(r.body.items) :
              r.body.items[i].sid = "s1" /\ r.body.items[i].type = "pageview"}

\* The route on one request: the extractors run in the order of the handler's
\* arguments, AuthContext before the body, and the handler body runs only if
\* none of them rejected.
ingest_route(auth_header, api_key_header, answer, r, req, po) ==
    LET auth == AuthContext(auth_header, api_key_header, answer)
    IN IF ~auth.ok
       THEN Rejected(ApiError(auth.status, auth.code, <<>>))
       ELSE ingest_handler(r, req, po)

\* The runs of the route, per request tag; the auth service is asked only
\* about a key that parsed, and the broker only where the produce call is
\* reached.
HttpTable ==
    [req \in 0..MaxLog |->
        {[authorization |-> ah, api_key |-> kh,
          answer |-> IF extract_api_key(ah, kh).ok THEN answer ELSE "none",
          r |-> r,
          po |-> IF AuthContext(ah, kh, answer).ok /\ reaches_produce(r) THEN po ELSE "none",
          h |-> ingest_route(ah, kh, answer, r, req, po)] :
            ah \in AuthorizationHeaders, kh \in ApiKeyHeaders, answer \in AuthAnswers,
            r \in HttpBodies, po \in ProduceOutcomes}]

NoHttp ==
    [authorization |-> [kind |-> "absent", key |-> "empty"],
     api_key |-> [kind |-> "absent", key |-> "empty"],
     answer |-> "none", size_over |-> FALSE, parse_ok |-> TRUE, n |-> 0,
     po |-> "none", appended |-> 0, response |-> [status |-> 0, code |-> ""]]

HttpInit == http = NoHttp

\* POST /overwatch-ingest, from the headers on.
HttpIngest ==
    /\ \E run \in HttpTable[ReqTag] :
         /\ Len(log) + Len(run.h.appended) <= MaxLog
         /\ redpanda_send_errors + run.h.send_errors <= MaxSendErrors
         /\ log' = log \o run.h.appended
         /\ redpanda_send_errors' = redpanda_send_errors + run.h.send_errors
         /\ http' = [authorization |-> run.authorization, api_key |-> run.api_key,
                     answer |-> run.answer,
                     size_over |-> run.r.size_over, parse_ok |-> run.r.parse_ok,
                     n |-> Len(run.r.events), po |-> run.po,
                     appended |-> Len(run.h.appended),
                     response |-> run.h.response]
    /\ UNCHANGED <<resp, consumer_vars>>

----------------------------------------------------------------------------
(* api/routes/mod.rs: the router *)

\* The paths clients post events to: the documented path and its legacy
\* alias.
IngestPaths == {"/overwatch-ingest", "/ingest"}

\* Variant: the legacy alias is mounted on the same handler.
router_with_alias(method, path) ==
    CASE path \in {"/overwatch-ingest", "/ingest"} ->
             IF method = "POST" THEN "ingest_handler" ELSE "method_not_allowed"
      [] path = "/health" -> IF method = "GET" THEN "health_handler" ELSE "method_not_allowed"
      [] path = "/health/ready" ->
             IF method = "GET" THEN "ready_handler" ELSE "method_not_allowed"
      [] path = "/health/live" -> IF method = "GET" THEN "live_handler" ELSE "method_not_allowed"
      [] OTHER -> "not_found"

\* router: the handler a request is dispatched to; a path that is not
\* mounted is answered 404 and a mounted path under another method 405.
router(method, path) ==
    CASE path = "/overwatch-ingest" ->
             IF method = "POST" THEN "ingest_handler" ELSE "method_not_allowed"
      [] path = "/health" -> IF method = "GET" THEN "health_handler" ELSE "method_not_allowed"
      [] path = "/health/ready" ->
             IF method = "GET" THEN "ready_handler" ELSE "method_not_allowed"
      [] path = "/health/live" -> IF method = "GET" THEN "live_handler" ELSE "method_not_allowed"
      [] OTHER -> "not_found"

\* The fallback of the router: an empty response, nothing is run.
Fallback(status) ==
    [response |-> [status |-> status, code |-> "", received |-> 0, errors |-> NoErrors],
     called |-> FALSE, appended |-> <<>>, send_errors |-> 0]

\* The requests the two paths are explored on: bodies within the byte limit
\* of at most one event.
PathTable ==
    [req \in 0..MaxLog |->
        {run \in HttpTable[req] : ~run.r.size_over /\ Len(run.r.body.items) <= 1}]

NoPost ==
    [path |-> "", authorization |-> [kind |-> "absent", key |-> "empty"],
     api_key |-> [kind |-> "absent", key |-> "empty"], answer |-> "none",
     parse_ok |-> TRUE, n |-> 0, po |-> "none", appended |-> 0,
     response |-> [status |-> 0, code |-> ""],
     primary |-> [status |-> 0, code |-> ""], primary_appended |-> 0]

PathsInit == posted = NoPost

\* POST path with the headers and body of run: the router dispatches, the
\* handler or the fallback answers. What POST /overwatch-ingest answers to
\* the same request is kept next to the response.
Post(path) ==
    /\ \E run \in PathTable[ReqTag] :
         LET handler == router("POST", path)
             h == IF handler = "ingest_handler" THEN run.h
                  ELSE IF handler = "not_found" THEN Fallback(404) ELSE Fallback(405)
         IN /\ Len(log) + Len(h.appended) <= MaxLog
            /\ redpanda_send_errors + h.send_errors <= MaxSendErrors
            /\ log' = log \o h.appended
            /\ redpanda_send_errors' = redpanda_send_errors + h.send_errors
            /\ posted' = [path |-> path, authorization |-> run.authorization,
                          api_key |-> run.api_key, answer |-> run.answer,
                          parse_ok |-> run.r.parse_ok, n |-> Len(run.r.events),
                          po |-> run.po, appended |-> Len(h.appended),
                          response |-> h.response,
                          primary |-> run.h.response,
                          primary_appended |-> Len(run.h.appended)]
    /\ UNCHANGED <<resp, consumer_vars, http>>

\* POST /overwatch-ingest
PostPrimary == Post("/overwatch-ingest")

\* POST /ingest
PostLegacy == Post("/ingest")

----------------------------------------------------------------------------
(* redpanda/batch.rs, redpanda/producer.rs: the batch accumulator *)

Topics == {"events_pageview", "events_click"}

NoBatches == [k \in {} |-> [events |-> <<>>, created_at |-> 0]]

\* An event that arrives at instant t.
ArrivingEvents(t) == [topic : Topics, at : {t}]

\* EventBatch::new
EventBatch_new(t) == [events |-> <<>>, created_at |-> t]

\* EventBatch::age
age(b, t) == t - b.created_at

\* Variant: the events are copied out and stay in the batch.
take_copying(b, t) == [events |-> b.events, created_at |-> t]

\* EventBatch::take: the batch it leaves behind.
take(b, t) == [events |-> <<>>, created_at |-> t]

\* The batch handed to the publish stage.
Surrendered(topic, b) == [topic |-> topic, events |-> b.events]

\* BatchAccumulator::add at instant t: the table afterwards and the Option
\* returned, as a set.
add(table, event, t) ==
    LET topic == event.topic
        entry == IF topic \in DOMAIN table THEN table[topic] ELSE EventBatch_new(t)
        pushed == [entry EXCEPT !.events = Append(@, event)]
        full == Len(pushed.events) >= BatchConfig_max_size
    IN [batches |-> [k \in (DOMAIN table) \cup {topic} |->
                        IF k = topic THEN (IF full THEN take(pushed, t) ELSE pushed)
                        ELSE table[k]],
        ret |-> IF full THEN {Surrendered(topic, pushed)} ELSE {}]

\* Variant: a batch is due only once it is older than max_age.
is_aged_late(b, t) == age(b, t) > BatchConfig_max_age /\ b.events # <<>>

\* The test of flush_aged.
is_aged(b, t) == age(b, t) >= BatchConfig_max_age /\ b.events # <<>>

\* BatchAccumulator::flush_aged
flush_aged(table, t) ==
    [batches |-> [k \in DOMAIN table |-> IF is_aged(table[k], t) THEN take(table[k], t)
                                         ELSE table[k]],
     ret |-> {Surrendered(k, table[k]) : k \in {x \in DOMAIN table : is_aged(table[x], t)}}]

\* BatchAccumulator::flush_all
flush_all(table, t) ==
    [batches |-> [k \in DOMAIN table |-> IF table[k].events # <<>> THEN take(table[k], t)
                                         ELSE table[k]],
     ret |-> {Surrendered(k, table[k]) : k \in {x \in DOMAIN table : table[x].events # <<>>}}]

NoEvent == [topic |-> "", at |-> -1]

AccInit ==
    /\ batches = NoBatches
    /\ returned = [op |-> "none", event |-> NoEvent, batches |-> {}]
    /\ instant = 0

\* Producer::send: one event goes into the accumulator.
Add ==
    /\ \E event \in ArrivingEvents(instant) :
         LET r == add(batches, event, instant)
         IN /\ batches' = r.batches
            /\ returned' = [op |-> "add", event |-> event, batches |-> r.ret]
    /\ UNCHANGED instant

\* One tick of the flush task.
FlushAged ==
    /\ LET r == flush_aged(batches, instant)
       IN /\ batches' = r.batches
          /\ returned' = [op |-> "flush_aged", event |-> NoEvent, batches |-> r.ret]
    /\ UNCHANGED instant

\* Producer::flush
FlushAll ==
    /\ LET r == flush_all(batches, instant)
       IN /\ batches' = r.batches
          /\ returned' = [op |-> "flush_all", event |-> NoEvent, batches |-> r.ret]
    /\ UNCHANGED instant

\* Time passes, one tick interval at a time.
Elapse ==
    /\ instant < MaxFlushTicks * FLUSH_TICK_MS
    /\ instant' = instant + FLUSH_TICK_MS
    /\ UNCHANGED <<batches, returned>>

\* The producer has not been called yet.
NoFate == [op |-> "none", published |-> {}, lost |-> {}, err |-> FALSE]

ProducerInit == fate = NoFate

\* Producer::flush_batch consumes the batch it is given: the records are
\* produced (Ok), or get_client, the serialisation or produce fails (Err) and
\* the batch is gone with the call.
flush_batch_outcomes == {"Ok", "Err"}

\* Producer::send: the event goes into the accumulator; a batch the
\* accumulator surrenders is published in the same call, and a failure is
\* returned with `?`.
Send ==
    /\ \E event \in ArrivingEvents(instant), outcome \in flush_batch_outcomes :
         LET r == add(batches, event, instant)
         IN /\ batches' = r.batches
            /\ returned' = [op |-> "add", event |-> event, batches |-> r.ret]
            /\ fate' = [op |-> "send",
                        published |-> IF outcome = "Ok" THEN r.ret ELSE {},
                        lost |-> IF outcome = "Err" THEN r.ret ELSE {},
                        err |-> r.ret # {} /\ outcome = "Err"]
    /\ UNCHANGED instant

\* One tick of the task of start_flush_task: the aged batches are taken and
\* published one by one; a failure is logged and the loop goes on.
FlushTask ==
    /\ LET r == flush_aged(batches, instant)
       IN /\ batches' = r.batches
          /\ returned' = [op |-> "flush_aged", event |-> NoEvent, batches |-> r.ret]
          /\ \E failing \in SUBSET r.ret :
                fate' = [op |-> "flush_task", published |-> r.ret \ failing,
                         lost |-> failing, err |-> FALSE]
    /\ UNCHANGED instant

\* Producer::flush (the shutdown flush of main): every pending batch is taken,
\* then published in the order of the Vec; the first failure is returned with
\* `?` and the batches after it are dropped with the Vec.
Flush ==
    /\ LET r == flush_all(batches, instant)
       IN /\ batches' = r.batches
          /\ returned' = [op |-> "flush_all", event |-> NoEvent, batches |-> r.ret]
          /\ \E order \in Perms(r.ret), k \in 0..Cardinality(r.ret) :
                fate' = [op |-> "flush",
                         published |-> {order[i] : i \in 1..k},
                         lost |-> {order[i] : i \in (k + 1)..Cardinality(r.ret)},
                         err |-> k < Cardinality(r.ret)]
    /\ UNCHANGED instant

----------------------------------------------------------------------------
(* api/state.rs: AuthClient *)

AuthKeys == {"K", "K2"}

\* The key whose validations are followed.
TrackedKey == "K"

\* The tasks that may be inside validate at the same time.
Callers == {"c1", "c2"}

\* AuthResponse.valid as the service reports it.
ServiceAnswers == {"valid", "invalid"}

EmptyCache == [k \in {} |-> [answer |-> "", inserted_at |-> 0]]

\* Variant: a lookup that never finds an entry.
cache_get_never(c, key, t) == [some |-> FALSE, answer |-> ""]

\* Cache::get: an entry is returned for AUTH_CACHE_TTL after its insert.
cache_get(c, key, t) ==
    IF key \in DOMAIN c /\ t - c[key].inserted_at < AUTH_CACHE_TTL
    THEN [some |-> TRUE, answer |-> c[key].answer]
    ELSE [some |-> FALSE, answer |-> ""]

\* Cache::insert: the caches it may leave. Expired entries are gone; over
\* max_capacity the cache drops an entry of its own choice, which may be
\* the new one.
cache_insert(c, key, answer, t) ==
    LET live == [k \in {x \in DOMAIN c : t - c[x].inserted_at < AUTH_CACHE_TTL} |-> c[k]]
        put == [k \in (DOMAIN live) \cup {key} |->
                   IF k = key THEN [answer |-> answer, inserted_at |-> t] ELSE live[k]]
    IN IF Cardinality(DOMAIN put) > AUTH_CACHE_MAX_CAPACITY
       THEN {[k \in (DOMAIN put) \ {v} |-> put[k]] : v \in DOMAIN put}
       ELSE {put}

\* Cache::invalidate
cache_invalidate(c, key) == [k \in (DOMAIN c) \ {key} |-> c[k]]

IdleCall == [pc |-> "idle", key |-> "", answer |-> "", promised |-> "none", live |-> FALSE]

NoAnswer == [some |-> FALSE, answer |-> "", at |-> 0]

NoValidation ==
    [key |-> "", answer |-> "", contacted |-> FALSE, promised |-> "none",
     live |-> FALSE, entry_answer |-> "", entry_age |-> -1]

AuthInit ==
    /\ cache = EmptyCache
    /\ calls = [c \in Callers |-> IdleCall]
    /\ answered = NoAnswer
    /\ validated = NoValidation
    /\ auth_now = 0

\* The answer of the service about TrackedKey that is less than
\* AUTH_CACHE_TTL old and has not been invalidated since, "none" if there is
\* none.
PromisedAnswer ==
    IF answered.some /\ auth_now - answered.at < AUTH_CACHE_TTL
    THEN answered.answer ELSE "none"

\* The entry of key in the cache is less than AUTH_CACHE_TTL old.
LiveEntry(key) == key \in DOMAIN cache /\ auth_now - cache[key].inserted_at < AUTH_CACHE_TTL

\* AuthClient::validate up to the cache lookup: a hit returns the cached
\* answer, a miss goes on to the service.
ValidateStart ==
    \E caller \in Callers : \E key \in AuthKeys :
        /\ calls[caller].pc = "idle"
        /\ LET hit == cache_get(cache, key, auth_now)
           IN IF hit.some
              THEN /\ validated' = IF key # TrackedKey THEN validated ELSE
                                   [key |-> key, answer |-> hit.answer, contacted |-> FALSE,
                                    promised |-> PromisedAnswer,
                                    live |-> LiveEntry(key),
                                    entry_answer |-> IF key \in DOMAIN cache
                                                     THEN cache[key].answer ELSE "",
                                    entry_age |-> IF key \in DOMAIN cache
                                                  THEN auth_now - cache[key].inserted_at ELSE -1]
                   /\ UNCHANGED calls
              ELSE /\ calls' = [calls EXCEPT ![caller] =
                                    [pc |-> "remote", key |-> key, answer |-> "",
                                     promised |-> IF key = TrackedKey THEN PromisedAnswer
                                                  ELSE "none",
                                     live |-> LiveEntry(key)]]
                   /\ UNCHANGED validated
        /\ UNCHANGED <<cache, answered, auth_now>>

\* What remote_validate returns: Ok with the service's answer, or Err (the
\* request failed or timed out, the status is not 2xx, or the body does not
\* parse).
RemoteOutcomes == ServiceAnswers \cup {"error"}

\* Variant: validate goes on to cache.insert whatever remote_validate returned.
reaches_insert_always(outcome) == TRUE

\* validate goes on to cache.insert only when remote_validate returned Ok:
\* an Err leaves validate through `?`.
reaches_insert(outcome) == outcome \in ServiceAnswers

\* remote_validate returns: the service's answer, or an error that validate
\* passes on without caching anything.
RemoteValidate ==
    \E caller \in Callers :
        /\ calls[caller].pc = "remote"
        /\ \E outcome \in RemoteOutcomes :
              IF reaches_insert(outcome)
              THEN /\ calls' = [calls EXCEPT ![caller].pc = "insert", ![caller].answer = outcome]
                   /\ answered' = IF calls[caller].key = TrackedKey /\ outcome \in ServiceAnswers
                                  THEN [some |-> TRUE, answer |-> outcome, at |-> auth_now]
                                  ELSE answered
                   /\ UNCHANGED validated
              ELSE /\ calls' = [calls EXCEPT ![caller] = IdleCall]
                   /\ validated' = IF calls[caller].key # TrackedKey THEN validated ELSE
                                   [key |-> calls[caller].key, answer |-> "error",
                                    contacted |-> TRUE, promised |-> calls[caller].promised,
                                    live |-> calls[caller].live,
                                    entry_answer |-> "", entry_age |-> -1]
                   /\ UNCHANGED answered
        /\ UNCHANGED <<cache, auth_now>>

\* AuthClient::validate from the cache insert to its return.
CacheInsert ==
    \E caller \in Callers :
        /\ calls[caller].pc = "insert"
        /\ \E c \in cache_insert(cache, calls[caller].key, calls[caller].answer, auth_now) :
              cache' = c
        /\ calls' = [calls EXCEPT ![caller] = IdleCall]
        /\ validated' = IF calls[caller].key # TrackedKey THEN validated ELSE
                        [key |-> calls[caller].key, answer |-> calls[caller].answer,
                         contacted |-> TRUE, promised |-> calls[caller].promised,
                         live |-> calls[caller].live,
                         entry_answer |-> "", entry_age |-> -1]
        /\ UNCHANGED <<answered, auth_now>>

\* AuthClient::invalidate
Invalidate ==
    \E key \in AuthKeys :
        /\ cache' = cache_invalidate(cache, key)
        /\ answered' = IF key = TrackedKey THEN NoAnswer ELSE answered
        /\ UNCHANGED <<calls, validated, auth_now>>

\* Time passes: the entries that reach AUTH_CACHE_TTL expire, and so does
\* the service's last answer.
AuthTick ==
    /\ auth_now < MaxAuthTicks * AuthTickSecs
    /\ auth_now' = auth_now + AuthTickSecs
    /\ cache' = [k \in {x \in DOMAIN cache : auth_now' - cache[x].inserted_at < AUTH_CACHE_TTL} |->
                    cache[k]]
    /\ answered' = IF answered.some /\ auth_now' - answered.at >= AUTH_CACHE_TTL
                   THEN NoAnswer ELSE answered
    /\ UNCHANGED <<calls, validated>>

----------------------------------------------------------------------------
(* worker/retention.rs *)

\* A data table and the internal-metrics table.
RETENTION_TABLES == {"overwatch.events"}

METRICS_TABLE == "overwatch.internal_metrics"

RetentionTables == RETENTION_TABLES \cup {METRICS_TABLE}

\* A text of decimal digits is the sequence of its digits.
RECURSIVE Digits(_)
Digits(n) == IF n < 10 THEN <<n>> ELSE Digits(n \div 10) \o <<n % 10>>

\* format!("{:02}", n)
Pad2(n) == IF n < 10 THEN <<0, n>> ELSE Digits(n)

\* The comparison of two strings in the column store: byte by byte, a proper
\* prefix first.
RECURSIVE StrLess(_, _)
StrLess(a, b) ==
    IF b = <<>> THEN FALSE
    ELSE IF a = <<>> THEN TRUE
    ELSE IF Head(a) # Head(b) THEN Head(a) < Head(b)
    ELSE StrLess(Tail(a), Tail(b))

\* The partition_id of a row whose timestamp lies in the month ym: the text
\* of toYYYYMM(timestamp).
toYYYYMM(ym) == Digits(ym.year * 100 + ym.month)

\* i32 division and remainder: the quotient is truncated towards zero and
\* the remainder has the sign of the dividend.
TruncDiv(a, b) == IF a >= 0 THEN a \div b ELSE -((-a) \div b)

TruncRem(a, b) == a - b * TruncDiv(a, b)

\* Variant: the month taken without stepping back and forth by one.
calculate_cutoff_partition_zero_based(ym, months_to_keep) ==
    LET total_months == ym.year * 12 + ym.month - months_to_keep
        target_year == TruncDiv(total_months, 12)
        target_month == TruncRem(total_months, 12)
    IN Digits(target_year) \o Pad2(target_month)

\* calculate_cutoff_partition
calculate_cutoff_partition(ym, months_to_keep) ==
    LET total_months == ym.year * 12 + ym.month - months_to_keep
        target_year == TruncDiv(total_months - 1, 12)
        target_month == TruncRem(total_months - 1, 12) + 1
    IN Digits(target_year) \o Pad2(target_month)

\* The dates and retentions calculate_cutoff_partition is explored on: every
\* month of two years, every retention up to MaxRetention months.
CutoffDates == [year : {2023, 2024}, month : 1..12]

Uncut(ym, months) == [now |-> ym, months_to_keep |-> months, called |-> FALSE, result |-> <<>>]

CutInit == cut \in {Uncut(ym, months) : ym \in CutoffDates, months \in 0..MaxRetention}

\* The specifications that do not explore the cutoff on its own hold one
\* call that is never made.
CutIdle == cut = Uncut([year |-> 2024, month |-> 1], DEFAULT_RETENTION_MONTHS)

\* calculate_cutoff_partition is called.
CalculateCutoff ==
    /\ ~cut.called
    /\ cut' = [cut EXCEPT !.called = TRUE,
                          !.result = calculate_cutoff_partition(cut.now, cut.months_to_keep)]

\* Variant: the listing takes the cutoff partition as well.
get_old_partitions_inclusive(active, cutoff_partition) ==
    {id \in active : StrLess(id, cutoff_partition) \/ id = cutoff_partition}

\* get_old_partitions: the active partitions with partition_id < cutoff.
get_old_partitions(active, cutoff_partition) ==
    {id \in active : StrLess(id, cutoff_partition)}

\* Variant: only the first listed partition is dropped.
drop_old_partitions_first(active, cutoff_partition, list_ok, drop_failed) ==
    LET listed == get_old_partitions(active, cutoff_partition)
    IN IF ~list_ok \/ listed = {} THEN active
       ELSE active \ ({CHOOSE id \in listed : \A x \in listed : x = id \/ StrLess(id, x)}
                      \ drop_failed)

\* drop_old_partitions: the partitions of the table afterwards. The listing
\* fails or not, and so does each DROP PARTITION; a failure is logged and
\* leaves the partition in place.
drop_old_partitions(active, cutoff_partition, list_ok, drop_failed) ==
    IF ~list_ok THEN active
    ELSE active \ (get_old_partitions(active, cutoff_partition) \ drop_failed)

\* The retention of a table, in months.
months_to_keep(table) ==
    IF table = METRICS_TABLE THEN METRICS_RETENTION_MONTHS ELSE DEFAULT_RETENTION_MONTHS

\* The month the worker starts in, and the months whose partitions the
\* tables may hold by then.
FirstMonth == [year |-> 2024, month |-> 1]

PastMonths(table) ==
    {[year |-> 2023, month |-> m] :
        m \in IF table = METRICS_TABLE THEN {11, 12} ELSE {9, 10, 11, 12}}

NextMonth(ym) ==
    IF ym.month = 12 THEN [year |-> ym.year + 1, month |-> 1]
    ELSE [year |-> ym.year, month |-> ym.month + 1]

\* The months the worker runs in.
WorkerMonths == {FirstMonth, NextMonth(FirstMonth)}

NoPass ==
    [ran |-> FALSE, seq |-> 0, cutoff |-> [t \in RetentionTables |-> <<>>], list_failed |-> {},
     drop_failed |-> [t \in RetentionTables |-> {}],
     dropped |-> [t \in RetentionTables |-> {}],
     again |-> FALSE,
     inserted_since |-> FALSE]

RetInit ==
    /\ partitions \in [RetentionTables ->
                          SUBSET {toYYYYMM(ym) : ym \in PastMonths("overwatch.events")}]
    /\ \A t \in RetentionTables :
          partitions[t] \subseteq {toYYYYMM(ym) : ym \in PastMonths(t)}
    /\ pass = NoPass
    /\ today = FirstMonth

\* What the column store may answer to drop_old_partitions on a table: the
\* listing fails, or it succeeds and the drops of some listed partitions
\* fail.
StoreOutcomes(active, cutoff_partition) ==
    {[list_ok |-> FALSE, drop_failed |-> {}]}
    \cup {[list_ok |-> TRUE, drop_failed |-> F] :
            F \in SUBSET get_old_partitions(active, cutoff_partition)}

\* The pass about to run with the given cutoffs follows a pass with the same
\* cutoffs in which nothing failed, nothing having been inserted in between.
SecondPass(cutoff) ==
    /\ pass.ran
    /\ pass.cutoff = cutoff
    /\ ~pass.inserted_since
    /\ pass.list_failed = {}
    /\ \A t \in RetentionTables : pass.drop_failed[t] = {}

\* The cutoff of each table, per month.
Cutoffs ==
    [ym \in WorkerMonths |->
        [t \in RetentionTables |-> calculate_cutoff_partition(ym, months_to_keep(t))]]

\* RetentionWorker::run: drop_old_partitions on every table, each with the
\* cutoff of its class.
RetentionRun ==
    /\ LET cutoff == Cutoffs[today]
       IN \E od \in StoreOutcomes(partitions["overwatch.events"], cutoff["overwatch.events"]) :
          \E om \in StoreOutcomes(partitions[METRICS_TABLE], cutoff[METRICS_TABLE]) :
            LET o == [t \in RetentionTables |-> IF t = METRICS_TABLE THEN om ELSE od]
                after == [t \in RetentionTables |->
                             drop_old_partitions(partitions[t], cutoff[t],
                                                 o[t].list_ok, o[t].drop_failed)]
            IN /\ partitions' = after
               /\ pass' = [ran |-> TRUE, seq |-> 1 - pass.seq, cutoff |-> cutoff,
                           list_failed |-> {t \in RetentionTables : ~o[t].list_ok},
                           drop_failed |-> [t \in RetentionTables |-> o[t].drop_failed],
                           dropped |-> [t \in RetentionTables |-> partitions[t] \ after[t]],
                           again |-> SecondPass(cutoff),
                           inserted_since |-> FALSE]
    /\ UNCHANGED today

\* An insert of the consumer writes rows of the current month into a table.
InsertRows ==
    /\ \E t \in RetentionTables :
         /\ toYYYYMM(today) \notin partitions[t]
         /\ partitions' = [partitions EXCEPT ![t] = @ \cup {toYYYYMM(today)}]
    /\ pass' = [pass EXCEPT !.inserted_since = TRUE]
    /\ UNCHANGED today

\* A month passes.
MonthPasses ==
    /\ NextMonth(today) \in WorkerMonths
    /\ today' = NextMonth(today)
    /\ UNCHANGED <<partitions, pass>>

----------------------------------------------------------------------------
(* telemetry/health.rs, main.rs, api/routes/health.rs *)

Components == {"redpanda", "clickhouse"}

\* ComponentHealth::new
ComponentHealth_new == [healthy |-> FALSE, message |-> "None"]

\* ComponentHealth::set_healthy
set_healthy(c) == [healthy |-> TRUE, message |-> "None"]

\* ComponentHealth::set_unhealthy
set_unhealthy(c, msg) == [healthy |-> FALSE, message |-> msg]

\* redpanda::health::check_connection, clickhouse_client::health::check_connection:
\* true when the component answers.
check_connection(component) == reachable[component]

\* HealthRegistry::report: the status.
report_status(reg) ==
    IF \A c \in Components : reg[c].healthy THEN "healthy"
    ELSE IF \E c \in Components : reg[c].healthy THEN "degraded"
    ELSE "unhealthy"

\* HealthRegistry::is_ready
is_ready(reg) == reg["redpanda"].healthy

\* HealthRegistry::is_alive
is_alive(reg) == TRUE

\* ready_handler, live_handler, health_handler: the response.
ready_handler(reg) == [status |-> IF is_ready(reg) THEN 200 ELSE 503, body |-> ""]

live_handler(reg) == [status |-> IF is_alive(reg) THEN 200 ELSE 503, body |-> ""]

health_handler(reg) == [status |-> 200, body |-> report_status(reg)]

HealthRoutes == {"/health", "/health/ready", "/health/live"}

NoProbe ==
    [path |-> "", status |-> 0, body |-> "", redpanda_healthy |-> FALSE,
     redpanda_reachable |-> FALSE]

HealthInit ==
    /\ reachable = [c \in Components |-> TRUE]
    /\ registry = [c \in Components |-> ComponentHealth_new]
    /\ main_pc = "check_health"
    /\ probe = NoProbe

\* main: check_health, once, before the workers and the server are started;
\* whatever it finds, main goes on.
CheckHealth ==
    /\ main_pc = "check_health"
    /\ registry' = [c \in Components |->
                       IF check_connection(c) THEN set_healthy(registry[c])
                       ELSE set_unhealthy(registry[c], "Connection failed")]
    /\ main_pc' = "serving"
    /\ UNCHANGED <<reachable, probe>>

\* The response of the route at path.
health_route(path, reg) ==
    CASE path = "/health/ready" -> ready_handler(reg)
      [] path = "/health/live" -> live_handler(reg)
      [] OTHER -> health_handler(reg)

\* GET path on the server.
Get(path) ==
    /\ main_pc = "serving"
    /\ LET r == health_route(path, registry)
       IN probe' = [path |-> path, status |-> r.status, body |-> r.body,
                    redpanda_healthy |-> registry["redpanda"].healthy,
                    redpanda_reachable |-> reachable["redpanda"]]
    /\ UNCHANGED <<reachable, registry, main_pc>>

\* GET /health/ready
ReadyProbe == Get("/health/ready")

\* GET /health or GET /health/live
StatusProbe == \E path \in HealthRoutes \ {"/health/ready"} : Get(path)

\* The broker or the column store stops answering, or answers again.
Outage ==
    /\ \E c \in Components : reachable' = [reachable EXCEPT ![c] = ~@]
    /\ UNCHANGED <<registry, main_pc, probe>>

----------------------------------------------------------------------------
(* worker/enrichment.rs *)

\* The fields of ClickHouseEvent the model keeps: the user agent, the four
\* fields enrichment is about, and fields it has no business with.
EventFields ==
    {"event_id", "event_type", "country", "user_agent", "device_type", "browser",
     "browser_version", "os"}

\* The events enrich is explored on.
EnrichEvents ==
    [event_id : {"test-123"}, event_type : {"pageview", "click"}, country : {"US"},
     user_agent : {"", "Mozilla/5.0"},
     device_type : {"", "unknown", "Unknown", "tablet"},
     browser : {"unknown", "Safari"}, browser_version : {"unknown"},
     os : {"unknown", "iOS"}]

NoResult == [some |-> FALSE, name |-> "", version |-> "", os |-> "", category |-> ""]

\* What woothee's Parser::parse may return for a user agent: None, or a
\* result whose name, version and os may be empty or "UNKNOWN".
ParseResults ==
    {NoResult}
    \cup [some : {TRUE}, name : {"", "UNKNOWN", "Chrome"}, version : {"UNKNOWN", "120.0"},
          os : {"UNKNOWN", "Mac OSX"},
          category : {"pc", "smartphone", "mobilephone", "crawler", "appliance", "misc",
                      "UNKNOWN"}]

\* The match on result.category.
device_type_of(category) ==
    CASE category = "pc" -> "desktop"
      [] category = "smartphone" -> "mobile"
      [] category = "mobilephone" -> "mobile"
      [] category = "crawler" -> "bot"
      [] category = "appliance" -> "other"
      [] OTHER -> "unknown"

\* Variant: the parsed category always wins.
sdk_left_device_type_always(device_type) == TRUE

\* The guard of the device_type write: is_empty() || == "unknown".
sdk_left_device_type(device_type) == device_type = "" \/ device_type = "unknown"

known(text) == text # "" /\ text # "UNKNOWN"

\* EnrichmentWorker::enrich with result what the parser returns for the
\* event's user agent.
enrich(event, result) ==
    IF event.user_agent = "" THEN event
    ELSE IF ~result.some THEN event
    ELSE [event EXCEPT
            !.browser = IF known(result.name) THEN result.name ELSE @,
            !.browser_version = IF known(result.version) THEN result.version ELSE @,
            !.os = IF known(result.os) THEN result.os ELSE @,
            !.device_type = IF sdk_left_device_type(@)
                            THEN device_type_of(result.category) ELSE @]

\* An event enrich has not been called on yet.
Unenriched(event) == [before |-> event, called |-> FALSE, result |-> NoResult, after |-> event]

EnrichInit == enriched \in {Unenriched(event) : event \in EnrichEvents}

\* The specifications that do not explore enrich hold one event that is
\* never enriched.
EnrichIdle ==
    enriched = Unenriched([event_id |-> "test-123", event_type |-> "pageview",
                           country |-> "US", user_agent |-> "", device_type |-> "unknown",
                           browser |-> "unknown", browser_version |-> "unknown",
                           os |-> "unknown"])

\* enrich is called on the event; the parser is asked only about a user
\* agent that is not empty.
Enrich ==
    /\ ~enriched.called
    /\ \E result \in IF enriched.before.user_agent = "" THEN {NoResult} ELSE ParseResults :
         enriched' = [before |-> enriched.before, called |-> TRUE, result |-> result,
                      after |-> enrich(enriched.before, result)]

----------------------------------------------------------------------------
(* worker/scheduler.rs *)

\* The periodic workers WorkerScheduler::start spawns.
Workers == {"compression", "retention", "metrics_flush", "notification"}

\* The calls of one run of a worker that can return Err, in the order of the
\* loop body: for retention the enforcement on the data tables and on the
\* metrics table inside RetentionWorker::run; CompressionWorker::run has
\* none.
Steps(w) ==
    CASE w = "compression" -> <<>>
      [] w = "retention" -> <<"overwatch.events", "overwatch.internal_metrics">>
      [] w = "metrics_flush" -> <<"insert_metrics", "collect_ops_metrics">>
      [] w = "notification" -> <<"check_and_alert", "collect_ops_metrics", "check_clickhouse_ops">>

\* The steps one run makes when the steps in failing return Err: every step
\* is made after whatever came before it, except that
\* check_clickhouse_ops is in the Ok arm of collect_ops_metrics.
made(w, failing) ==
    SelectSeq(Steps(w),
              LAMBDA st : ~(w = "notification" /\ st = "check_clickhouse_ops"
                            /\ "collect_ops_metrics" \in failing))

Range(seq) == {seq[i] : i \in 1..Len(seq)}

\* The error! and warn! lines of one run: one for each step that was made
\* and failed.
logged(w, failing) == Range(made(w, failing)) \cap failing

\* Variant: a failed step ends the loop.
after_run_propagating(failed) == IF failed # {} THEN "exited" ELSE "tick"

\* Where the loop goes after the body: back to ticker.tick().
after_run(failed) == "tick"

\* Of the last run of each worker the number of steps that failed and the
\* number of lines logged are kept, and whether the run before it failed.
SchedInit ==
    sched = [w \in Workers |->
                [pc |-> "tick", failed |-> 0, logged |-> 0, failed_before |-> FALSE]]

\* ticker.tick().await returns.
WorkerTick(w) ==
    /\ sched[w].pc = "tick"
    /\ sched' = [sched EXCEPT ![w].pc = "run"]

\* The body of the loop after the tick: the steps of the run, some of which
\* fail.
WorkerRun(w) ==
    /\ sched[w].pc = "run"
    /\ \E failing \in SUBSET Range(Steps(w)) :
         LET failed == Range(made(w, failing)) \cap failing
         IN sched' = [sched EXCEPT ![w] =
                         [pc |-> after_run(failed), failed |-> Cardinality(failed),
                          logged |-> Cardinality(logged(w, failing)),
                          failed_before |-> sched[w].failed > 0]]

----------------------------------------------------------------------------
(* api/middleware/rate_limit.rs *)

Keys == 1..(MAX_BUCKETS + 1)

EmptyTable == [k \in {} |-> [tokens |-> 0, last_update |-> 0]]

Min(a, b) == IF a <= b THEN a ELSE b

\* TokenBucket::new
TokenBucket_new(burst, t) == [tokens |-> burst, last_update |-> t]

\* Variant: a token is taken whether or not the bucket holds one.
try_acquire_overdrawn(bucket, rate, burst, t) ==
    LET elapsed == t - bucket.last_update
        tokens == Min(bucket.tokens + elapsed * rate, burst)
    IN [bucket |-> [tokens |-> tokens - 1, last_update |-> t], acquired |-> tokens >= 1]

\* Variant: a refill that is not clamped to the burst.
try_acquire_unclamped(bucket, rate, burst, t) ==
    LET elapsed == t - bucket.last_update
        tokens == bucket.tokens + elapsed * rate
    IN IF tokens >= 1
       THEN [bucket |-> [tokens |-> tokens - 1, last_update |-> t], acquired |-> TRUE]
       ELSE [bucket |-> [tokens |-> tokens, last_update |-> t], acquired |-> FALSE]

\* TokenBucket::try_acquire at instant t: the bucket afterwards and the answer.
try_acquire(bucket, rate, burst, t) ==
    LET elapsed == t - bucket.last_update
        tokens == Min(bucket.tokens + elapsed * rate, burst)
    IN IF tokens >= 1
       THEN [bucket |-> [tokens |-> tokens - 1, last_update |-> t], acquired |-> TRUE]
       ELSE [bucket |-> [tokens |-> tokens, last_update |-> t], acquired |-> FALSE]

\* Variant: a bucket updated exactly max_age ago is kept.
retain_fresh_inclusive(table, t, max_age) ==
    [k \in {x \in DOMAIN table : t - table[x].last_update <= max_age} |-> table[k]]

\* HashMap::retain with the staleness predicate.
retain_fresh(table, t, max_age) ==
    [k \in {x \in DOMAIN table : t - table[x].last_update < max_age} |-> table[k]]

\* The number of buckets the forced eviction removes.
to_evict == MAX_BUCKETS \div 10

Remove(table, E) == [k \in (DOMAIN table) \ E |-> table[k]]

\* The keys of the entries with the earliest last_update.
OldestKeys(table) ==
    {k \in DOMAIN table : \A x \in DOMAIN table : table[k].last_update <= table[x].last_update}

\* The sets of keys the forced eviction may remove: the n entries that come
\* first when the entries are sorted by last_update (entries with equal
\* last_update come in the map's iteration order, which is arbitrary).
RECURSIVE OldestSets(_, _)
OldestSets(table, n) ==
    IF n = 0 \/ DOMAIN table = {} THEN {{}}
    ELSE UNION {{{k} \cup E : E \in OldestSets(Remove(table, {k}), n - 1)} :
                    k \in OldestKeys(table)}

\* Variant: the capacity test off by one.
at_capacity_late(table, key) == Cardinality(DOMAIN table) > MAX_BUCKETS /\ key \notin DOMAIN table

\* The condition under which check evicts before inserting.
at_capacity(table, key) == Cardinality(DOMAIN table) >= MAX_BUCKETS /\ key \notin DOMAIN table

\* Variant: the forced eviction runs whether or not the stale sweep made room.
evict_always_forced(table, key, t) ==
    IF at_capacity(table, key)
    THEN LET fresh == retain_fresh(table, t, DEFAULT_MAX_AGE)
         IN {Remove(fresh, E) : E \in OldestSets(fresh, to_evict)}
    ELSE {table}

\* The eviction block of RateLimiter::check: the tables it may leave.
evict(table, key, t) ==
    IF at_capacity(table, key)
    THEN LET fresh == retain_fresh(table, t, DEFAULT_MAX_AGE)
         IN IF Cardinality(DOMAIN fresh) >= MAX_BUCKETS
            THEN {Remove(fresh, E) : E \in OldestSets(fresh, to_evict)}
            ELSE {fresh}
    ELSE {table}

\* RateLimiter::check once the eviction block has left table: entry().or_insert_with,
\* then try_acquire.
check_entry(table, key, rate, burst, t) ==
    LET bucket == IF key \in DOMAIN table THEN table[key] ELSE TokenBucket_new(burst, t)
        r == try_acquire(bucket, rate, burst, t)
    IN [table |-> [k \in (DOMAIN table) \cup {key} |-> IF k = key THEN r.bucket ELSE table[k]],
        acquired |-> r.acquired]

RLInit == buckets = EmptyTable /\ allowed = TRUE /\ now = 0 /\ swept = FALSE

\* The keys that come back for more than one attempt.
HotKeys == {1}

\* The keys an attempt may carry: a key seen before that keeps coming back
\* (HotKeys), or the next key never seen in the table.
CheckKeys ==
    ((DOMAIN buckets) \cap HotKeys)
    \cup (IF Keys \ DOMAIN buckets = {} THEN {}
          ELSE {CHOOSE k \in Keys \ DOMAIN buckets : \A x \in Keys \ DOMAIN buckets : k <= x})

\* RateLimiter::check(key) on the table: the eviction block, then the
\* key's bucket.
CheckKey(key) ==
    \E table \in evict(buckets, key, now) :
        LET c == check_entry(table, key, Rate, Burst, now)
        IN /\ buckets' = c.table
           /\ allowed' = c.acquired

\* RateLimiter::check(key)
Check ==
    /\ \E key \in CheckKeys : CheckKey(key)
    /\ swept' = FALSE
    /\ UNCHANGED now

\* The instants of the clock.
Instants == {i * TickSecs : i \in 0..MaxTicks}

\* No attempt of the returning key yet.
NoAdmits == [last |-> -1, n |-> [t \in Instants |-> 0]]

BudgetInit == admits = NoAdmits

\* The admissions of the returning key so far.
RECURSIVE SumOver(_, _)
SumOver(f, S) ==
    IF S = {} THEN 0
    ELSE LET x == CHOOSE y \in S : TRUE IN f[x] + SumOver(f, S \ {x})

\* RateLimiter::check(key), with the admissions of the returning key
\* counted per instant. The returning key comes back less than an hour after
\* its last attempt.
CheckCounted ==
    /\ \E key \in CheckKeys :
         /\ (key \in HotKeys /\ admits.last >= 0) => now - admits.last < DEFAULT_MAX_AGE
         /\ CheckKey(key)
         /\ admits' = IF key \in HotKeys
                      THEN [last |-> now,
                            n |-> IF allowed' THEN [admits.n EXCEPT ![now] = @ + 1]
                                  ELSE admits.n]
                      ELSE admits
         /\ SumOver(admits'.n, Instants) <= MaxAdmits
    /\ swept' = FALSE
    /\ UNCHANGED now

\* RateLimiter::cleanup_stale, run by the periodic task.
CleanupStale ==
    /\ buckets' = retain_fresh(buckets, now, DEFAULT_MAX_AGE)
    /\ swept' = TRUE
    /\ UNCHANGED <<allowed, now>>

\* Time passes.
Tick ==
    /\ now < MaxTicks * TickSecs
    /\ now' = now + TickSecs
    /\ swept' = FALSE
    /\ UNCHANGED <<buckets, allowed>>

----------------------------------------------------------------------------
(* Specifications *)

\* The pipeline with the configuration of ConsumerWorker::new, at rest.
PipeIdle == PipeInit /\ skip_on_failure = TRUE

\* The specifications that do not explore route_and_insert on its own hold
\* one batch that is never routed.
RouteIdle == routed = Unrouted(<<[event_id |-> 1, event_type |-> "pageview"]>>)

\* The column store before any row was inserted.
RetIdle == RetInit /\ partitions = [t \in RetentionTables |-> {}]

Init == PipeInit /\ RLInit /\ HttpInit /\ AccInit /\ AuthInit /\ RetIdle /\ HealthInit /\ RouteIdle /\ SchedInit /\ EnrichIdle /\ PathsInit /\ CutIdle /\ CheckingInit /\ BudgetInit /\ ProducerInit

Next ==
    \/ (Publish /\ UNCHANGED outside_pipe)
    \/ (ForeignPublish /\ UNCHANGED outside_pipe)
    \/ (EnsureConnected /\ UNCHANGED outside_pipe)
    \/ (FetchBatch /\ UNCHANGED outside_pipe)
    \/ (InsertAttempt /\ UNCHANGED outside_pipe)
    \/ (Recover /\ UNCHANGED outside_pipe)

Spec == Init /\ [][Next]_vars

\* The pipeline with a task that calls Consumer::health_check beside the loop.
NextChecking ==
    \/ Next
    \/ (HealthCheckStart /\ UNCHANGED outside_checking)
    \/ (HealthCheckConnect /\ UNCHANGED outside_checking)
    \/ (HealthCheckGetOffset /\ UNCHANGED outside_checking)
    \/ (HealthCheckStore /\ UNCHANGED outside_checking)
    \/ (HealthCheckCache /\ UNCHANGED outside_checking)

InitChecking == Init

SpecChecking == InitChecking /\ [][NextChecking]_vars

NextIngest == Ingest /\ UNCHANGED outside_pipe

InitIngest == PipeIdle /\ RLInit /\ HttpInit /\ AccInit /\ AuthInit /\ RetIdle /\ HealthInit /\ RouteIdle /\ SchedInit /\ EnrichIdle /\ PathsInit /\ CutIdle /\ CheckingInit /\ BudgetInit /\ ProducerInit

SpecIngest == InitIngest /\ [][NextIngest]_vars

NextRL ==
    \/ (Check /\ UNCHANGED outside_rl)
    \/ (CleanupStale /\ UNCHANGED outside_rl)
    \/ (Tick /\ UNCHANGED outside_rl)

InitRL == PipeIdle /\ RLInit /\ HttpInit /\ AccInit /\ AuthInit /\ RetIdle /\ HealthInit /\ RouteIdle /\ SchedInit /\ EnrichIdle /\ PathsInit /\ CutIdle /\ CheckingInit /\ BudgetInit /\ ProducerInit

SpecRL == InitRL /\ [][NextRL]_vars

\* The rate limiter with the admissions of the returning key counted.
NextBudget ==
    \/ (CheckCounted /\ UNCHANGED outside_budget)
    \/ (CleanupStale /\ UNCHANGED <<outside_budget, admits>>)
    \/ (Tick /\ UNCHANGED <<outside_budget, admits>>)

InitBudget == InitRL

SpecBudget == InitBudget /\ [][NextBudget]_vars

NextHttp == HttpIngest /\ UNCHANGED outside_route

InitHttp == PipeIdle /\ RLInit /\ HttpInit /\ AccInit /\ AuthInit /\ RetIdle /\ HealthInit /\ RouteIdle /\ SchedInit /\ EnrichIdle /\ PathsInit /\ CutIdle /\ CheckingInit /\ BudgetInit /\ ProducerInit

SpecHttp == InitHttp /\ [][NextHttp]_vars

NextBatch ==
    \/ (Add /\ UNCHANGED outside_acc)
    \/ (FlushAged /\ UNCHANGED outside_acc)
    \/ (FlushAll /\ UNCHANGED outside_acc)
    \/ (Elapse /\ UNCHANGED outside_acc)

InitBatch == PipeIdle /\ RLInit /\ HttpInit /\ AccInit /\ AuthInit /\ RetIdle /\ HealthInit /\ RouteIdle /\ SchedInit /\ EnrichIdle /\ PathsInit /\ CutIdle /\ CheckingInit /\ BudgetInit /\ ProducerInit

SpecBatch == InitBatch /\ [][NextBatch]_vars

\* The producer: the accumulator with the publish stage behind it.
NextProducer ==
    \/ (Send /\ UNCHANGED outside_producer)
    \/ (FlushTask /\ UNCHANGED outside_producer)
    \/ (Flush /\ UNCHANGED outside_producer)
    \/ (Elapse /\ UNCHANGED <<outside_producer, fate>>)

InitProducer == InitBatch

SpecProducer == InitProducer /\ [][NextProducer]_vars

NextAuth ==
    \/ (ValidateStart /\ UNCHANGED outside_auth)
    \/ (RemoteValidate /\ UNCHANGED outside_auth)
    \/ (CacheInsert /\ UNCHANGED outside_auth)
    \/ (Invalidate /\ UNCHANGED outside_auth)
    \/ (AuthTick /\ UNCHANGED outside_auth)

InitAuth == PipeIdle /\ RLInit /\ HttpInit /\ AccInit /\ AuthInit /\ RetIdle /\ HealthInit /\ RouteIdle /\ SchedInit /\ EnrichIdle /\ PathsInit /\ CutIdle /\ CheckingInit /\ BudgetInit /\ ProducerInit

SpecAuth == InitAuth /\ [][NextAuth]_vars

NextRet ==
    \/ (RetentionRun /\ UNCHANGED outside_ret)
    \/ (InsertRows /\ UNCHANGED outside_ret)
    \/ (MonthPasses /\ UNCHANGED outside_ret)

InitRet == PipeIdle /\ RLInit /\ HttpInit /\ AccInit /\ AuthInit /\ RetInit /\ HealthInit /\ RouteIdle /\ SchedInit /\ EnrichIdle /\ PathsInit /\ CutIdle /\ CheckingInit /\ BudgetInit /\ ProducerInit

SpecRet == InitRet /\ [][NextRet]_vars

NextHealth ==
    \/ (CheckHealth /\ UNCHANGED outside_health)
    \/ (StatusProbe /\ UNCHANGED outside_health)
    \/ (ReadyProbe /\ UNCHANGED outside_health)
    \/ (Outage /\ UNCHANGED outside_health)

InitHealth == PipeIdle /\ RLInit /\ HttpInit /\ AccInit /\ AuthInit /\ RetIdle /\ HealthInit /\ RouteIdle /\ SchedInit /\ EnrichIdle /\ PathsInit /\ CutIdle /\ CheckingInit /\ BudgetInit /\ ProducerInit

\* The health routes with a main that does not stall and a readiness probe
\* that keeps being sent; nothing is assumed of the broker.
SpecHealth ==
    /\ InitHealth
    /\ [][NextHealth]_vars
    /\ WF_vars(CheckHealth /\ UNCHANGED outside_health)
    /\ WF_vars(ReadyProbe /\ UNCHANGED outside_health)

NextSinks == RouteAndInsert /\ UNCHANGED outside_sinks

InitSinks ==
    PipeIdle /\ RLInit /\ HttpInit /\ AccInit /\ AuthInit /\ RetIdle /\ HealthInit /\ RouteInit /\ SchedInit /\ EnrichIdle /\ PathsInit /\ CutIdle /\ CheckingInit /\ BudgetInit /\ ProducerInit

SpecSinks == InitSinks /\ [][NextSinks]_vars

NextSched ==
    \/ \E w \in Workers : WorkerTick(w) /\ UNCHANGED outside_sched
    \/ \E w \in Workers : WorkerRun(w) /\ UNCHANGED outside_sched

InitSched ==
    PipeIdle /\ RLInit /\ HttpInit /\ AccInit /\ AuthInit /\ RetIdle /\ HealthInit /\ RouteIdle /\ SchedInit /\ EnrichIdle /\ PathsInit /\ CutIdle /\ CheckingInit /\ BudgetInit /\ ProducerInit

\* The workers with timers that keep firing and runs whose calls return.
SpecSched ==
    /\ InitSched
    /\ [][NextSched]_vars
    /\ \A w \in Workers : WF_vars(WorkerTick(w) /\ UNCHANGED outside_sched)
    /\ \A w \in Workers : WF_vars(WorkerRun(w) /\ UNCHANGED outside_sched)

NextEnrich == Enrich /\ UNCHANGED outside_enrich

InitEnrich ==
    PipeIdle /\ RLInit /\ HttpInit /\ AccInit /\ AuthInit /\ RetIdle /\ HealthInit /\ RouteIdle /\ SchedInit /\ EnrichInit /\ PathsInit /\ CutIdle /\ CheckingInit /\ BudgetInit /\ ProducerInit

SpecEnrich == InitEnrich /\ [][NextEnrich]_vars

NextPaths ==
    \/ (PostPrimary /\ UNCHANGED outside_paths)
    \/ (PostLegacy /\ UNCHANGED outside_paths)

InitPaths == InitHttp

SpecPaths == InitPaths /\ [][NextPaths]_vars

NextCut == CalculateCutoff /\ UNCHANGED outside_cut

InitCut ==
    PipeIdle /\ RLInit /\ HttpInit /\ AccInit /\ AuthInit /\ RetIdle /\ HealthInit /\ RouteIdle /\ SchedInit /\ EnrichIdle /\ PathsInit /\ CutInit /\ CheckingInit /\ BudgetInit /\ ProducerInit

SpecCut == InitCut /\ [][NextCut]_vars

----------------------------------------------------------------------------
(* Properties of the consumer *)

\* The event ids of the storage records at offsets below o.
StorageIdsBelow(o) ==
    {log[i].value.body.event_id : i \in {j \in 1..Len(log) : j <= o /\ from_slice_ok(log[j].value)}}

\* C33: only the consumer loop changes the consumer offset: no step of a
\* health_check that runs beside the loop, the first connection included,
\* changes the offset the loop fetches from.
C33_OnlyLoopMovesOffset ==
    [][current_offset' # current_offset => checking' = checking]_vars

\* C34: once the start offset is set, no step of the loop (connection,
\* fetch, insert attempt, commit after an insert or after a skipped batch,
\* connection reset) lowers the consumer offset.
C34_OffsetNeverDecreases ==
    [][initialized => current_offset' >= current_offset]_vars

\* C34 witness: one batch was inserted and committed, another was skipped
\* and committed, then the connection was reset and made again, and the
\* offset is past both.
C34_Witness ==
    /\ initialized
    /\ paused_ms = ERROR_PAUSE_MS
    /\ partition_client = "Some"
    /\ current_offset = 2
    /\ abandoned # {}
    /\ SinkIds \ abandoned # {}

\* The rows written since the batch in hand was fetched (base is the number
\* of rows the sink held at the fetch).
RowsOfBatch == SubSeq(sink, batch.base + 1, Len(sink))

\* insert_with_retry has returned for the batch in hand.
Returned == batch.settled \in {"inserted", "skipped", "failed"}

\* C35: when insert_with_retry returns, each record of the batch was written
\* at most once since the batch was fetched: no retry wrote again a group
\* that an earlier attempt had written.
C35_NoGroupInsertedTwice ==
    Returned =>
        \A id \in EventIds(batch.events) :
            Cardinality({i \in 1..Len(RowsOfBatch) : RowsOfBatch[i].event.event_id = id}) <= 1

\* The event ids of the rows a step appends to the sink.
NewSinkIds == {sink'[i].event.event_id : i \in (Len(sink) + 1)..Len(sink')}

\* C1: once the start offset is set, the offset moves only in the step that
\* ends the processing of a fetched batch, to the offset fetch_batch handed
\* back, and only when the insert of that step wrote every event of the batch,
\* or when every attempt failed under skip_on_failure and the batch is
\* recorded as abandoned.
C1_OffsetOnlyAfterInsert ==
    [][(initialized /\ current_offset' # current_offset) =>
          /\ pc = "insert"
          /\ current_offset' = batch.offset.offset
          /\ \/ /\ batch'.settled = "inserted"
                /\ NewSinkIds = EventIds(batch.events)
             \/ /\ batch'.settled = "skipped"
                /\ skip_on_failure
                /\ (attempt + 1) \notin retry_range(max_retries)
                /\ EventIds(batch.events) \subseteq abandoned']_vars

\* C1 witness: one batch was inserted and the offset went past it, then a
\* second batch was abandoned and the offset went past it as well.
C1_Witness ==
    /\ batch.settled = "skipped"
    /\ current_offset = batch.max_offset + 1
    /\ EventIds(batch.events) \subseteq abandoned
    /\ SinkIds # {}
    /\ SinkIds \cap abandoned = {}

\* C2: every storage record the consumer's offset has gone past is in the
\* sink or was abandoned (the offset never goes back, so a record behind it
\* is never fetched again).
C2_PassedRecordsDelivered ==
    initialized => StorageIdsBelow(current_offset) \subseteq (SinkIds \cup abandoned)

\* C3: once a fetch that returned at least one record has been processed
\* without an insert error, the offset is the highest fetched offset plus one.
C3_OffsetPastFetched ==
    (batch.n >= 1 /\ batch.settled \in {"empty", "inserted", "skipped"})
        => current_offset = batch.max_offset + 1

\* C21: after a batch has been inserted and committed, the offset is the
\* highest offset among the records of that fetch plus one (the fetch of n
\* records from offset f holds the offsets f .. f + n - 1), it stays there
\* until the next batch is settled, and the next fetch starts at it.
C21_OffsetAfterInsert ==
    [][/\ batch'.settled = "inserted" =>
            /\ batch'.max_offset = batch'.from + batch'.n - 1
            /\ current_offset' = batch'.max_offset + 1
       /\ (batch.settled = "inserted" /\ batch'.from # batch.from) =>
            /\ batch'.from = batch.max_offset + 1
            /\ batch'.from = current_offset]_vars

\* C21 witness: the record at offset 0 was inserted and committed, the next
\* fetch started at offset 1, and its batch was inserted and committed too.
C21_Witness ==
    /\ batch.settled = "inserted"
    /\ batch.from = 1
    /\ current_offset = 2
    /\ abandoned = {}
    /\ Cardinality(SinkIds) = 2
    /\ \E i \in 1..Len(sink) : sink[i].event = log[1].value.body

\* C6 as stated: at most max_retries insert attempts are made for a batch.
C6_AtMostMaxRetriesAttempts == batch.calls <= max_retries

\* C6 amended: at most max_retries + 1 insert attempts are made for a batch
\* (the first and max_retries retries), retry number i comes after a sleep of
\* retry_backoff * i, and after the last attempt the batch is settled.
C6_AtMostMaxRetriesPlusOne ==
    /\ batch.calls <= max_retries + 1
    /\ Len(backoffs) = Max(batch.calls - 1, 0)
    /\ \A i \in 1..Len(backoffs) : backoffs[i] = DEFAULT_RETRY_BACKOFF_MS * i
    /\ batch.calls = max_retries + 1 => pc # "insert"

\* C6 witness: every attempt for a batch was made and failed.
C6_Witness ==
    /\ batch.calls = max_retries + 1
    /\ Len(backoffs) = max_retries
    /\ batch.settled \in {"skipped", "failed"}

\* C7: with skip_on_failure unset, the step in which the last attempt fails
\* leaves the offset alone and hands the error to run; run then sleeps one
\* second and drops the connection without touching the offset; a
\* reconnection after the start offset was set leaves the offset alone; and
\* the fetch after a failed batch starts where the failed one started.
C7_FailureRestartsFromCommitted ==
    [][/\ (pc = "insert" /\ ~skip_on_failure /\ batch'.settled = "failed")
            => (current_offset' = current_offset /\ pc' = "error")
       /\ (pc = "error" /\ consumer_vars' # consumer_vars)
            => /\ pc' = "fetch"
               /\ partition_client' = "None"
               /\ paused_ms' = 1000
               /\ current_offset' = current_offset
       /\ (initialized /\ partition_client = "None" /\ partition_client' = "Some")
            => current_offset' = current_offset
       /\ (batch.settled = "failed" /\ batch' # batch)
            => (batch'.from = batch.from /\ batch'.from = current_offset)]_vars

\* C7 witness: a batch failed for good with skip_on_failure unset, the loop
\* paused, reconnected, and fetched the same records again.
C7_Witness ==
    /\ ~skip_on_failure
    /\ batch.settled = "pending"
    /\ batch.calls = 0
    /\ batch.from = current_offset
    /\ partition_client = "Some"
    /\ \E i \in 1..Len(sink) : sink[i].event.event_id \in EventIds(batch.events)

\* Record a came before record b in one request, with the same session.
SameRequestSession(a, b) ==
    /\ a.event_id[1] = b.event_id[1]
    /\ a.session_id = b.session_id
    /\ a.event_id[2] < b.event_id[2]

StorageOffsets == {i \in 1..Len(log) : from_slice_ok(log[i].value)}

\* The place of the first row of the sink that holds event e.
FirstInSink(e) ==
    CHOOSE i \in 1..Len(sink) :
        /\ sink[i].event = e
        /\ \A j \in 1..Len(sink) : sink[j].event = e => i <= j

SinkEvents == {sink[i].event : i \in 1..Len(sink)}

\* Same-session records of one request lie on the log in request order.
LogKeepsRequestOrder ==
    \A i, j \in StorageOffsets :
        SameRequestSession(log[i].value.body, log[j].value.body) => i < j

\* C8 as stated: same-session records of one request lie on the log in
\* request order and reach the sink in request order.
C8_SessionOrderToSink ==
    /\ LogKeepsRequestOrder
    /\ \A a, b \in SinkEvents :
          SameRequestSession(a, b) => FirstInSink(a) < FirstInSink(b)

\* C8 amended: same-session records of one request lie on the log in request
\* order, and those of them that have the same event type reach the sink in
\* request order.
C8_SessionOrderPerEventType ==
    /\ LogKeepsRequestOrder
    /\ \A a, b \in SinkEvents :
          (SameRequestSession(a, b) /\ a.event_type = b.event_type)
              => FirstInSink(a) < FirstInSink(b)

\* C8 witness: two same-session records of one request, of one event type,
\* are on the log and in the sink.
C8_Witness ==
    \E a, b \in SinkEvents :
        /\ SameRequestSession(a, b)
        /\ a.event_type = b.event_type
        /\ \E i, j \in StorageOffsets : log[i].value.body = a /\ log[j].value.body = b

\* The routing table: the sink table of each event type that has one.
DedicatedTable ==
    [pageview |-> "pageviews", pageleave |-> "pageviews", click |-> "clicks",
     form_blur |-> "form_events", custom |-> "custom_events", geographic |-> "geographic"]

\* The tables that hold a row made from event e after the last call.
TablesHolding(e) == {routed.rows[j].table : j \in {x \in 1..Len(routed.rows) : routed.rows[x].event = e}}

\* C26: when route_and_insert succeeds on a batch, every record of the batch
\* is in one row of exactly one sink table, the table the routing table
\* gives for its event type or the catch-all events table if the type has
\* none, no other row is written, and the count returned is the number of
\* records of the batch.
C26_EachRecordToItsTable ==
    routed.ok =>
        /\ \A i \in 1..Len(routed.events) :
              LET e == routed.events[i]
              IN /\ Cardinality({j \in 1..Len(routed.rows) : routed.rows[j].event = e}) = 1
                 /\ TablesHolding(e) =
                       {IF e.event_type \in DOMAIN DedicatedTable
                        THEN DedicatedTable[e.event_type] ELSE "events"}
        /\ Len(routed.rows) = Len(routed.events)
        /\ routed.count = Len(routed.events)

\* C26 witness: a batch with two events of types that share a table and one
\* of a type without a table has been inserted: two rows in pageviews, one
\* in events.
C26_Witness ==
    /\ routed.ok
    /\ routed.count = 3
    /\ {routed.events[i].event_type : i \in 1..3} = {"pageview", "pageleave", "session_start"}
    /\ Cardinality({j \in 1..3 : routed.rows[j].table = "pageviews"}) = 2
    /\ Cardinality({j \in 1..3 : routed.rows[j].table = "events"}) = 1

----------------------------------------------------------------------------
(* Properties of the ingest handler *)

\* C4: a request whose produce call the broker rejected is answered 500 with
\* code DB_001, not 200, and the send-error counter has been incremented.
C4_RejectedProduceIs500 ==
    resp.po = "rejected" =>
        /\ resp.response.status = 500
        /\ resp.response.code = "DB_001"
        /\ resp.response.status # 200
        /\ redpanda_send_errors > 0
        /\ resp.appended = 0

\* C9: a request that parses and whose records all fail validation is
\* answered 400 with one failure per record, and publishes nothing.
C9_ZeroSurvivorsIs400 ==
    (~resp.size_over /\ resp.parse_ok /\ resp.n >= 1 /\ resp.failures = resp.n) =>
        /\ resp.response.status = 400
        /\ Len(resp.response.errors.list) = resp.n
        /\ resp.appended = 0

\* C10: in every response with status 200, received is the number of records
\* of the request minus the number of records that failed, the errors list
\* has one entry per failed record, and errors is present exactly when some
\* record failed.
C10_ReceivedCountsSurvivors ==
    resp.response.status = 200 =>
        /\ resp.response.received = resp.n - resp.failures
        /\ Len(resp.response.errors.list) = resp.failures
        /\ resp.response.received + Len(resp.response.errors.list) = resp.n
        /\ resp.response.errors.some = (resp.failures > 0)

\* C10 witness: a request with a record that survives and a record that fails
\* is answered 200.
C10_Witness ==
    /\ resp.response.status = 200
    /\ resp.failures >= 1
    /\ resp.n - resp.failures >= 1
    /\ resp.response.errors.some
    /\ resp.appended = resp.response.received

\* C11: a request whose body is over the byte limit is answered 400 with
\* code VALID_001, and publishes nothing.
C11_OversizedBodyIsValid001 ==
    resp.size_over =>
        /\ resp.response.status = 400
        /\ resp.response.code = "VALID_001"
        /\ resp.appended = 0

\* C13: a request that decodes to more than MAX_BATCH_EVENTS records is
\* answered 400 with code VALID_002 and publishes nothing; a request that
\* decodes to exactly MAX_BATCH_EVENTS records is not rejected by the batch
\* guard.
C13_BatchGuard ==
    (~resp.size_over /\ resp.parse_ok) =>
        /\ resp.n > MAX_BATCH_EVENTS =>
              /\ resp.response.status = 400
              /\ resp.response.code = "VALID_002"
              /\ resp.appended = 0
        /\ resp.n = MAX_BATCH_EVENTS =>
              ~(resp.response.status = 400 /\ resp.response.code = "VALID_002")

\* C13 witness: a request one record over the ceiling has been rejected by
\* the batch guard.
C13_Witness ==
    /\ ~resp.size_over
    /\ resp.parse_ok
    /\ resp.n = MAX_BATCH_EVENTS + 1
    /\ resp.response.status = 400
    /\ resp.response.code = "VALID_002"
    /\ resp.appended = 0

\* C19: every storage record in the log is one message whose key is exactly
\* the text of the record's session identifier, and two such messages have
\* equal keys if and only if their records carry the same session
\* identifier.
C19_KeyIsSessionId ==
    LET Stored == {i \in 1..Len(log) : log[i].value.enc = "ClickHouseEvent"}
    IN /\ \A i \in Stored : log[i].key = <<log[i].value.body.session_id>>
       /\ \A i, j \in Stored :
             (log[i].key = log[j].key) <=>
                 (log[i].value.body.session_id = log[j].value.body.session_id)

\* The body is not valid JSON, is none of the three accepted shapes, or holds
\* a record that does not decode.
Malformed(shape) ==
    \/ ~shape.json
    \/ shape.kind \notin {"array", "object"}
    \/ shape.kind = "object" /\ "events" \notin shape.keys
                             /\ ~({"id", "type"} \subseteq shape.keys)
    \/ shape.kind = "object" /\ "events" \in shape.keys /\ ~shape.events_is_array
    \/ shape.incomplete > 0
    \/ shape.foreign > 0

\* C27: a request within the byte limit whose body is not valid JSON, is not
\* an array, an object with an events array or a single event, or contains a
\* record that lacks a required field or has a type outside the closed set,
\* is answered 400 with code VALID_001, the producer is not called and no
\* record of the request is published, whatever else the body holds.
C27_MalformedBodyIsValid001 ==
    (~resp.size_over /\ Malformed(resp.shape)) =>
        /\ resp.response.status = 400
        /\ resp.response.code = "VALID_001"
        /\ ~resp.called
        /\ resp.appended = 0

\* C27 witness: an array of two records, one of which decodes and one of
\* which has a type outside the closed set, has been rejected as a whole.
C27_Witness ==
    /\ ~resp.size_over
    /\ resp.shape.kind = "array"
    /\ resp.shape.items = 2
    /\ resp.shape.foreign = 1
    /\ resp.shape.incomplete = 0
    /\ resp.response.status = 400
    /\ resp.response.code = "VALID_001"
    /\ resp.appended = 0

\* C28: a request within the byte limit whose body decodes to zero records
\* (an empty array, or an object with an empty events array) is answered 200
\* with success true, received 0 and no errors, and the producer is not
\* called.
C28_EmptyBatchAccepted ==
    (resp # NoResp /\ ~resp.size_over /\ ~Malformed(resp.shape) /\ resp.shape.items = 0) =>
        /\ resp.response.status = 200
        /\ resp.response.success
        /\ resp.response.received = 0
        /\ ~resp.response.errors.some
        /\ ~resp.called
        /\ resp.appended = 0

\* C28 witness: an empty array has been answered 200 after a request that
\* published records, so the answer does not come from an untouched state.
C28_Witness ==
    /\ ~resp.size_over
    /\ resp.shape.kind = "array"
    /\ resp.shape.items = 0
    /\ resp.response.status = 200
    /\ resp.response.received = 0
    /\ Len(log) > 0

----------------------------------------------------------------------------
(* Properties of the ingest route *)

\* The key the headers of the last request carry: the Bearer key of the
\* Authorization header, else the X-API-Key header, "empty" if neither
\* carries text.
CarriedKey ==
    IF http.authorization.kind = "bearer" THEN http.authorization.key
    ELSE IF http.api_key.kind = "value" THEN http.api_key.key
    ELSE "empty"

\* The credential check fails on the last request.
CredentialFails == CarriedKey # "wellformed" \/ http.answer # "valid"

\* C12: the checks run in the order size guard, credential, parse, batch
\* guard, and the response is the error of the earliest check that fails: a
\* body over the byte limit is answered by the size guard (400) whatever the
\* credential, a bad credential on a body within the limit is answered 401
\* or 403, then an unparseable body 400 VALID_001, then a batch over the
\* record ceiling 400 VALID_002.
C12_EarliestFailingCheckWins ==
    http.response.status # 0 =>
        /\ http.size_over => http.response.status = 400
        /\ (~http.size_over /\ CredentialFails) => http.response.status \in {401, 403}
        /\ (~http.size_over /\ ~CredentialFails /\ ~http.parse_ok) =>
              (http.response.status = 400 /\ http.response.code = "VALID_001")
        /\ (~http.size_over /\ ~CredentialFails /\ http.parse_ok /\ http.n > MAX_BATCH_EVENTS) =>
              (http.response.status = 400 /\ http.response.code = "VALID_002")

\* C17: a request with no key text in the Authorization: Bearer header nor in
\* the X-API-Key header is answered 401 with code AUTH_001 and publishes
\* nothing.
C17_NoCredentialIs401 ==
    (http.response.status # 0
       /\ ~(http.authorization.kind = "bearer" /\ http.authorization.key # "empty")
       /\ ~(http.api_key.kind = "value" /\ http.api_key.key # "empty")) =>
        /\ http.response.status = 401
        /\ http.response.code = "AUTH_001"
        /\ http.appended = 0

\* C17 witness: a request with neither header, and a body that would have
\* been accepted, has been answered 401 AUTH_001.
C17_Witness ==
    /\ http.authorization.kind = "absent"
    /\ http.api_key.kind = "absent"
    /\ ~http.size_over /\ http.parse_ok /\ http.n >= 1
    /\ http.response.status = 401
    /\ http.response.code = "AUTH_001"

\* C18: a request whose key is present but not of the key format is answered
\* 401 with code AUTH_002 and publishes nothing.
C18_MalformedCredentialIs401 ==
    (http.response.status # 0 /\ CarriedKey = "malformed") =>
        /\ http.response.status = 401
        /\ http.response.code = "AUTH_002"
        /\ http.appended = 0

\* C18 witness: a request with a malformed key in X-API-Key, and a body
\* that would have been accepted, has been answered 401 AUTH_002.
C18_Witness ==
    /\ http.authorization.kind = "absent"
    /\ http.api_key = [kind |-> "value", key |-> "malformed"]
    /\ ~http.size_over /\ http.parse_ok /\ http.n >= 1
    /\ http.response.status = 401
    /\ http.response.code = "AUTH_002"

\* C31: a POST to /ingest receives the response POST /overwatch-ingest gives
\* to the same request, and publishes the same number of records.
C31_AliasSharesHandler ==
    posted.path \in IngestPaths =>
        /\ posted.response = posted.primary
        /\ posted.appended = posted.primary_appended

----------------------------------------------------------------------------
(* Properties of the rate limiter *)

\* C5: after any sequence of admission attempts and cleanup sweeps the table
\* holds at most MAX_BUCKETS buckets.
C5_TableWithinCeiling == Cardinality(DOMAIN buckets) <= MAX_BUCKETS

\* C5 witness: the table is full and holds a key that was admitted after
\* the table had filled up, a forced eviction having made room for it.
C5_Witness ==
    /\ Cardinality(DOMAIN buckets) = MAX_BUCKETS
    /\ (MAX_BUCKETS + 1) \in DOMAIN buckets
    /\ \A k \in DOMAIN buckets : now - buckets[k].last_update < DEFAULT_MAX_AGE

\* The buckets of the table that have not been updated for DEFAULT_MAX_AGE.
StaleKeys == {k \in DOMAIN buckets : now - buckets[k].last_update >= DEFAULT_MAX_AGE}

\* C36: for the key that comes back less than an hour after each of its
\* attempts, the requests admitted between any two instants t1 <= t2 number
\* at most burst + rate * (t2 - t1), whatever the other keys do.
C36_AdmittedWithinBudget ==
    \A t1, t2 \in Instants :
        t1 <= t2 =>
            SumOver(admits.n, {t \in Instants : t1 <= t /\ t <= t2}) <= Burst + Rate * (t2 - t1)

\* C14: an admission attempt on a new key removes buckets only when the table
\* is at its ceiling; it then removes every bucket not updated for 1 hour
\* and, only if the table is still at the ceiling after that, the oldest 10%
\* of the buckets; an admission attempt on an existing key removes nothing
\* (a step that removes buckets and adds none is the periodic sweep: it
\* removes the stale buckets and touches nothing else).
C14_EvictionOnAdmission ==
    [][now' = now =>
        LET before == DOMAIN buckets
            added == (DOMAIN buckets') \ before
            removed == before \ DOMAIN buckets'
            survivors == before \ StaleKeys
        IN /\ added # {} =>
                IF Cardinality(before) < MAX_BUCKETS
                THEN removed = {}
                ELSE /\ StaleKeys \subseteq removed
                     /\ IF Cardinality(survivors) < MAX_BUCKETS
                        THEN removed = StaleKeys
                        ELSE /\ Cardinality(removed \ StaleKeys) = Cardinality(survivors) \div 10
                             /\ \A r \in removed \ StaleKeys : \A k \in survivors \ removed :
                                    buckets[r].last_update <= buckets[k].last_update
           /\ (added = {} /\ removed # {}) =>
                /\ removed = StaleKeys
                /\ allowed' = allowed
                /\ \A k \in DOMAIN buckets' : buckets'[k] = buckets[k]
    ]_vars

\* C14 witness: the key that is only tried on a full table has just been
\* admitted, and the stale sweep of that attempt made room for more than the
\* forced eviction would have.
C14_Witness ==
    /\ (MAX_BUCKETS + 1) \in DOMAIN buckets
    /\ buckets[MAX_BUCKETS + 1].last_update = now
    /\ Cardinality(DOMAIN buckets) <= MAX_BUCKETS - (MAX_BUCKETS \div 10)

\* C15: an admission attempt refills the bucket by elapsed seconds x rate,
\* clamped to the burst; it is admitted and exactly one token is subtracted
\* if and only if the refilled count is at least 1, and otherwise it is
\* rejected and no token is subtracted. (A new key starts from a full bucket
\* with no time elapsed.)
C15_RefillAndAcquire ==
    [][now' = now =>
        /\ \A k \in DOMAIN buckets' :
              LET old == IF k \in DOMAIN buckets THEN buckets[k]
                         ELSE [tokens |-> Burst, last_update |-> now]
                  refilled == Min(old.tokens + (now - old.last_update) * Rate, Burst)
              IN (k \notin DOMAIN buckets \/ buckets'[k] # buckets[k]) =>
                    /\ buckets'[k].last_update = now
                    /\ allowed' = (refilled >= 1)
                    /\ buckets'[k].tokens = IF refilled >= 1 THEN refilled - 1 ELSE refilled
        /\ (buckets' = buckets /\ allowed' # allowed) =>
              /\ allowed' = FALSE
              /\ \E k \in DOMAIN buckets : buckets[k].last_update = now /\ buckets[k].tokens < 1
    ]_vars

\* C15 witness: after time has passed, an attempt on a bucket that an
\* admitted attempt at the same instant had emptied has been rejected.
C15_Witness ==
    /\ allowed = FALSE
    /\ now > 0
    /\ \E k \in DOMAIN buckets : buckets[k].last_update = now /\ buckets[k].tokens = 0

\* C40: after every admission attempt, admitted or rejected, the token count
\* of the bucket lies between 0 and the burst (every bucket of the table is
\* as its last attempt left it).
C40_TokensWithinBurst ==
    \A k \in DOMAIN buckets : 0 <= buckets[k].tokens /\ buckets[k].tokens <= Burst

\* C40 witness: at the last instant of the clock, long after its bucket
\* could have refilled past the burst, the only key of the table was
\* admitted and its bucket holds the burst less the token taken.
C40_Witness ==
    /\ allowed
    /\ now = MaxTicks * TickSecs
    /\ DOMAIN buckets = HotKeys
    /\ \A k \in HotKeys : buckets[k].last_update = now /\ buckets[k].tokens = Burst - 1

\* C24: the periodic sweep removes every bucket whose last update is at
\* least DEFAULT_MAX_AGE (1 hour) old, whatever the number of buckets in the
\* table, and leaves every younger bucket as it is, token count included;
\* it does not touch the answer of the last admission attempt.
C24_SweepRemovesStale ==
    [][swept' =>
          /\ now' = now
          /\ allowed' = allowed
          /\ DOMAIN buckets' = (DOMAIN buckets) \ StaleKeys
          /\ \A k \in DOMAIN buckets' :
                /\ now - buckets[k].last_update < DEFAULT_MAX_AGE
                /\ buckets'[k] = buckets[k]
          /\ \A k \in (DOMAIN buckets) \ DOMAIN buckets' :
                now - buckets[k].last_update >= DEFAULT_MAX_AGE]_vars

\* C24 witness: on a table below the ceiling, a sweep has just removed
\* buckets last updated exactly DEFAULT_MAX_AGE before and left a younger
\* bucket that is not full.
C24_Witness ==
    /\ swept
    /\ now = 2 * TickSecs
    /\ 1 \notin DOMAIN buckets
    /\ Cardinality(DOMAIN buckets) < MAX_BUCKETS - 1
    /\ \E k \in DOMAIN buckets :
          /\ buckets[k].last_update = TickSecs
          /\ buckets[k].tokens < Burst

----------------------------------------------------------------------------
(* Properties of the batch accumulator *)

\* The topics whose pending batch is non-empty and has been accumulating for
\* max_age on the accumulator's clock.
DueTopics ==
    {k \in DOMAIN batches :
        batches[k].events # <<>> /\ instant - batches[k].created_at >= BatchConfig_max_age}

\* C20: an add surrenders the topic's pending batch, with the new record, as
\* soon as it holds max_size records and otherwise surrenders nothing; a
\* flush tick surrenders exactly the pending batches that are non-empty and
\* have been accumulating for max_age, each with all its records; and after
\* either no pending batch holds max_size records or a record that arrived
\* max_age before the tick.
C20_SurrenderOnSizeOrAge ==
    [][instant' = instant =>
        /\ \A k \in DOMAIN batches' : Len(batches'[k].events) < BatchConfig_max_size
        /\ returned'.op = "add" =>
              LET k == returned'.event.topic
                  grown == Append(IF k \in DOMAIN batches THEN batches[k].events ELSE <<>>,
                                  returned'.event)
              IN IF Len(grown) >= BatchConfig_max_size
                 THEN /\ returned'.batches = {[topic |-> k, events |-> grown]}
                      /\ batches'[k].events = <<>>
                 ELSE /\ returned'.batches = {}
                      /\ batches'[k].events = grown
        /\ returned'.op = "flush_aged" =>
              /\ returned'.batches = {[topic |-> k, events |-> batches[k].events] : k \in DueTopics}
              /\ \A k \in DueTopics : batches'[k].events = <<>>
              /\ \A k \in (DOMAIN batches) \ DueTopics : batches'[k] = batches[k]
              /\ \A k \in DOMAIN batches' :
                    batches'[k].events # <<>> =>
                        instant - Head(batches'[k].events).at < BatchConfig_max_age
    ]_vars

\* C20 witness: a flush tick has surrendered a batch that had not reached
\* max_size.
C20_Witness ==
    /\ returned.op = "flush_aged"
    /\ \E b \in returned.batches :
          /\ Len(b.events) >= 1
          /\ Len(b.events) < BatchConfig_max_size
          /\ instant - b.events[1].at >= BatchConfig_max_age

\* The events of a topic among the batches a call surrendered (a call
\* surrenders at most one batch per topic).
SurrenderedOf(ret, k) ==
    IF \E b \in ret : b.topic = k
    THEN (CHOOSE b \in ret : b.topic = k).events
    ELSE <<>>

\* The pending events of a topic.
PendingOf(table, k) == IF k \in DOMAIN table THEN table[k].events ELSE <<>>

\* C37: whatever the order of add, flush_aged and flush_all, each call leaves
\* every event of every topic in exactly one place and in arrival order: the
\* events the call surrendered for a topic, followed by the events still
\* pending for it, are the events that were pending before, followed by the
\* event added if the call is an add for that topic; and a call surrenders
\* at most one batch per topic.
C37_EventsConserved ==
    [][instant' = instant =>
        /\ \A b1, b2 \in returned'.batches : b1.topic = b2.topic => b1 = b2
        /\ \A k \in Topics :
              SurrenderedOf(returned'.batches, k) \o PendingOf(batches', k)
                = PendingOf(batches, k)
                    \o (IF returned'.op = "add" /\ returned'.event.topic = k
                        THEN <<returned'.event>> ELSE <<>>)
    ]_vars

\* C37 witness: an add has surrendered a batch of records that arrived at
\* different instants, first arrival first, while another topic has a
\* pending event.
C37_Witness ==
    /\ returned.op = "add"
    /\ \E b \in returned.batches :
          /\ Len(b.events) = BatchConfig_max_size
          /\ b.events[1].at < b.events[Len(b.events)].at
          /\ b.events[Len(b.events)] = returned.event
          /\ \E k \in Topics \ {b.topic} : PendingOf(batches, k) # <<>>

\* C38: an event the accumulator accepted is never dropped unpublished
\* without notice: when a call of the producer (a send that fills a batch, a
\* tick of the flush task, the shutdown flush) ends with surrendered events
\* neither published nor pending, the failure is returned to its caller.
C38_FailedPublishNotSilent ==
    fate.lost # {} => fate.err

----------------------------------------------------------------------------
(* Properties of the auth cache *)

\* C16: once the service has answered a validation of a key, every
\* validation of the key that starts in the next 30 s (and before an
\* invalidate of the key) returns that answer without contacting the
\* service, and a validation that starts when there is no such answer
\* contacts the service.
C16_AnswerHeldFor30s ==
    validated.key # "" =>
        IF validated.promised # "none"
        THEN ~validated.contacted /\ validated.answer = validated.promised
        ELSE validated.contacted

\* C16, as amended: a validation of a key that starts while the cache holds
\* an entry for the key (stored less than 30 s before, and neither
\* invalidated nor evicted since) returns the answer of that entry without
\* contacting the service, and a validation that starts when the cache holds
\* no entry for the key contacts the service.
C16_CacheEntryDecides ==
    validated.key # "" =>
        IF validated.live
        THEN ~validated.contacted /\ validated.answer = validated.entry_answer
        ELSE validated.contacted

\* C16 witness: a validation has returned the answer of an entry cached a
\* tick or more before it started, without contacting the service, while
\* the service's last answer is still less than 30 s old.
C16_Witness ==
    /\ validated.key # ""
    /\ ~validated.contacted
    /\ validated.live
    /\ validated.entry_age >= AuthTickSecs
    /\ validated.answer = validated.entry_answer
    /\ answered.some

\* C39: a validation that obtains no answer from the auth service stores
\* nothing: the step in which remote_validate fails ends the validation and
\* leaves the cache as it was, and no entry of the cache ever holds anything
\* but an answer of the service; so a validation of the credential that
\* starts after a failed one, with no answer for the credential in the
\* cache, contacts the service.
C39_NoAnswerStoresNothing ==
    [][/\ \A caller \in Callers :
            (calls[caller].pc = "remote" /\ calls'[caller].pc # "remote") =>
                /\ cache' = cache
                /\ calls'[caller].pc = "idle" => validated'.answer = "error"
                                                   \/ calls[caller].key # TrackedKey
       /\ \A k \in DOMAIN cache' : cache'[k].answer \in ServiceAnswers
       /\ \A caller \in Callers :
            (/\ validated.answer = "error"
             /\ TrackedKey \notin DOMAIN cache
             /\ calls[caller].pc = "idle"
             /\ calls'[caller].pc # "idle"
             /\ calls'[caller].key = TrackedKey) =>
                calls'[caller].pc = "remote"
    ]_vars

\* C39 witness: the last validation of the credential to end got no answer,
\* the cache holds nothing for the credential, and the only validation in
\* flight is one of the credential that is contacting the service.
C39_Witness ==
    /\ validated.key = TrackedKey
    /\ validated.answer = "error"
    /\ TrackedKey \notin DOMAIN cache
    /\ \E caller \in Callers :
          /\ calls[caller].pc = "remote"
          /\ calls[caller].key = TrackedKey
          /\ \A other \in Callers \ {caller} : calls[other].pc = "idle"

----------------------------------------------------------------------------
(* Properties of the retention worker *)

PrevMonth(ym) ==
    IF ym.month = 1 THEN [year |-> ym.year - 1, month |-> 12]
    ELSE [year |-> ym.year, month |-> ym.month - 1]

RECURSIVE MonthsBack(_, _)
MonthsBack(ym, k) == IF k = 0 THEN ym ELSE MonthsBack(PrevMonth(ym), k - 1)

\* The partitions of table t that sort below the cutoff of the pass a step
\* makes.
BelowCutoff(t) == {id \in partitions[t] : StrLess(id, pass'.cutoff[t])}

\* The pass a step makes met no failed listing and no failed drop.
CleanPass(p) == p.list_failed = {} /\ \A t \in RetentionTables : p.drop_failed[t] = {}

\* C22 as stated: a retention pass drops every active partition whose
\* identifier is less than the cutoff of its table, and no other.
C22_DropsAllBelowCutoff ==
    [][pass'.seq # pass.seq =>
          \A t \in RetentionTables : partitions'[t] = partitions[t] \ BelowCutoff(t)]_vars

\* C22, as amended: a retention pass, whose cutoff is the month
\* retention_months before the current one, drops every active partition
\* whose identifier is less than the cutoff, except those of a table whose
\* listing failed and those whose drop failed, and drops no partition whose
\* identifier is equal to or greater than the cutoff; no other step drops a
\* partition.
C22_DropsBelowCutoffUnlessFailed ==
    [][/\ pass'.seq # pass.seq =>
            \A t \in RetentionTables :
                /\ pass'.cutoff[t] = toYYYYMM(MonthsBack(today, months_to_keep(t)))
                /\ partitions'[t] =
                       IF t \in pass'.list_failed THEN partitions[t]
                       ELSE partitions[t] \ (BelowCutoff(t) \ pass'.drop_failed[t])
                /\ \A id \in partitions[t] :
                       ~StrLess(id, pass'.cutoff[t]) => id \in partitions'[t]
                /\ CleanPass(pass') => partitions'[t] = partitions[t] \ BelowCutoff(t)
       /\ pass'.seq = pass.seq =>
            \A t \in RetentionTables : partitions[t] \subseteq partitions'[t]]_vars

\* C22 witness: with 202309 .. 202312 in the data table in January 2024, a
\* pass without failures has dropped 202309 and left the other three.
C22_Witness ==
    /\ pass.ran
    /\ CleanPass(pass)
    /\ ~pass.inserted_since
    /\ pass.cutoff["overwatch.events"] = <<2, 0, 2, 3, 1, 0>>
    /\ pass.dropped["overwatch.events"] = {<<2, 0, 2, 3, 0, 9>>}
    /\ partitions["overwatch.events"] =
          {<<2, 0, 2, 3, 1, 0>>, <<2, 0, 2, 3, 1, 1>>, <<2, 0, 2, 3, 1, 2>>}

RECURSIVE Value(_)
Value(ds) == IF ds = <<>> THEN 0 ELSE 10 * Value(SubSeq(ds, 1, Len(ds) - 1)) + ds[Len(ds)]

\* C32: for every month of 2023 and 2024 and every retention of 0 to
\* MaxRetention months, the cutoff is the six-digit YYYYMM of the calendar
\* month that many months before the current month, and its month part is
\* in 01..12.
C32_CutoffIsMonthsBack ==
    cut.called =>
        LET back == MonthsBack(cut.now, cut.months_to_keep)
        IN /\ Len(cut.result) = 6
           /\ Value(SubSeq(cut.result, 1, 4)) = back.year
           /\ Value(SubSeq(cut.result, 5, 6)) = back.month
           /\ Value(SubSeq(cut.result, 5, 6)) \in 1..12

\* C32 witness: the cutoff of January 2024 with 3 months is 202310, across
\* the year boundary.
C32_Witness ==
    /\ cut.called
    /\ cut.now = [year |-> 2024, month |-> 1]
    /\ cut.months_to_keep = 3
    /\ cut.result = <<2, 0, 2, 3, 1, 0>>

----------------------------------------------------------------------------
(* Properties of the health routes *)

\* C25: GET /health/ready answers 200 while the log-producer component is
\* healthy and 503 otherwise; a failed check does not keep main from going
\* on to serve; and whenever the broker is unreachable after start-up, a
\* check eventually marks the component unhealthy (unless the broker comes
\* back), after which GET /health/ready answers 503.
C25_BrokerLossTurnsUnready ==
    /\ [](probe.path = "/health/ready" =>
            probe.status = IF probe.redpanda_healthy THEN 200 ELSE 503)
    /\ [][main_pc = "check_health" /\ registry' # registry => main_pc' = "serving"]_vars
    /\ (main_pc = "serving" /\ ~reachable["redpanda"]) ~>
          (reachable["redpanda"] \/ ~registry["redpanda"].healthy)
    /\ (main_pc = "serving" /\ ~reachable["redpanda"]) ~>
          (reachable["redpanda"] \/ (probe.path = "/health/ready" /\ probe.status = 503))

----------------------------------------------------------------------------
(* Properties of the scheduler *)

\* C29: every step of a run of a periodic worker that fails is logged, no
\* worker ever leaves its loop, and after a run in which a step failed the
\* worker goes back to waiting for its timer and the next tick runs the
\* body again.
C29_FailedRunDoesNotStopWorker ==
    /\ [](\A w \in Workers : sched[w].pc \in {"tick", "run"})
    /\ [](\A w \in Workers : sched[w].logged = sched[w].failed)
    /\ \A w \in Workers :
          (sched[w].failed > 0 /\ sched[w].pc = "tick") ~> (sched[w].pc = "run")
    /\ \A w \in Workers :
          (sched[w].failed > 0 /\ sched[w].pc = "run") ~> (sched[w].pc = "tick")

\* C29 witness: every worker that has a call that can fail has completed a
\* run after a run in which a step failed, and the metrics flush went on to
\* its second step after the first failed.
C29_Witness ==
    /\ \A w \in Workers \ {"compression"} :
          sched[w].failed_before /\ sched[w].pc = "tick"
    /\ sched["metrics_flush"].logged = 2

----------------------------------------------------------------------------
(* Properties of enrichment *)

\* The fields enrich may write.
EnrichedFields == {"browser", "browser_version", "os", "device_type"}

\* C30: enrich changes no field of an event other than browser,
\* browser_version, os and device_type; it changes device_type only if its
\* value before was empty or "unknown"; and it changes nothing at all if the
\* user agent is empty.
C30_EnrichFrame ==
    enriched.called =>
        /\ DOMAIN enriched.after = EventFields
        /\ \A f \in EventFields \ EnrichedFields : enriched.after[f] = enriched.before[f]
        /\ enriched.after.device_type # enriched.before.device_type =>
              enriched.before.device_type \in {"", "unknown"}
        /\ enriched.before.user_agent = "" => enriched.after = enriched.before

\* C30 witness: enrich has rewritten browser, browser_version and os of an
\* event whose device_type the SDK had set, and kept that device_type
\* although the parser reported another category.
C30_Witness ==
    /\ enriched.called
    /\ enriched.before.device_type = "tablet"
    /\ enriched.result.category = "pc"
    /\ enriched.after.browser = "Chrome" /\ enriched.before.browser = "Safari"
    /\ enriched.after.browser_version = "120.0"
    /\ enriched.after.os = "Mac OSX"
    /\ enriched.after.device_type = "tablet"

====
